---- MODULE Spec2Model ----
(***************************************************************************)
(* State-machine model of the fetch / rate-limit / cache / fallback        *)
(* pipeline of src/app.py (the UIU student bot).                           *)
(*                                                                         *)
(* Every handler is an `async def` with no await between its first access  *)
(* to shared state and its final reply_text call (CrawlerProcess.start()   *)
(* blocks the thread), so on the single asyncio thread a handler runs from *)
(* that access to its reply without interleaving: one action per handler.  *)
(* Text is modelled by strings; lower(), `in` and split(',') are computed. *)
(***************************************************************************)
EXTENDS Integers, Sequences, FiniteSets, TLC

\* ------------------------------------------------------------------ bounds
MaxTicks == 2            \* clock advances explored
Epoch0 == 1700000000     \* reading of time.time() when the process starts
MaxRows == 6             \* rows the roadmaps table may grow to
MaxReminders == 3        \* rows the reminders table may grow to

\* --------------------------------------------------------- program constants
Cooldown == 60           \* can_scrape: time.time() - last_scrape < 60
TTL == 24 * 3600         \* roadmap: ... > 24*3600
CapItems == 5            \* spiders: [:5]
CapNotices == 3          \* NoticeSpider: [:3]
CapRecommend == 3        \* recommend: [:3]

Users == {1, 2}
NoTime == -1

\* ------------------------------------------------------------------- text
UpperChars == "ABCDEFGHIJKLMNOPQRSTUVWXYZ"
LowerChars == "abcdefghijklmnopqrstuvwxyz"

\* the lower-case letter of each upper-case letter
ToLower ==
    [c \in {SubSeq(UpperChars, i, i) : i \in 1..Len(UpperChars)} |->
        LET i == CHOOSE j \in 1..Len(UpperChars) : SubSeq(UpperChars, j, j) = c
        IN  SubSeq(LowerChars, i, i)]

\* one character of str.lower()
LowerChar(c) == IF c \in DOMAIN ToLower THEN ToLower[c] ELSE c

RECURSIVE Lower(_)
\* str.lower()
Lower(s) ==
    IF Len(s) = 0 THEN ""
    ELSE LowerChar(SubSeq(s, 1, 1)) \o Lower(SubSeq(s, 2, Len(s)))

\* one character of str.upper()
UpperChar(c) ==
    IF \E u \in DOMAIN ToLower : ToLower[u] = c
    THEN CHOOSE u \in DOMAIN ToLower : ToLower[u] = c
    ELSE c

\* str.capitalize()
Capitalize(s) ==
    IF Len(s) = 0 THEN ""
    ELSE UpperChar(SubSeq(s, 1, 1)) \o Lower(SubSeq(s, 2, Len(s)))

\* Python `t in s` on strings
Contains(t, s) ==
    \E i \in 1..(Len(s) - Len(t) + 1) : SubSeq(s, i, i + Len(t) - 1) = t

\* index of the first sep in s at or after i, 0 if none
RECURSIVE FindFrom(_, _, _)
FindFrom(s, sep, i) ==
    IF i > Len(s) THEN 0
    ELSE IF SubSeq(s, i, i) = sep THEN i
    ELSE FindFrom(s, sep, i + 1)

RECURSIVE Split(_, _)
\* str.split(sep) for a one-character sep
Split(s, sep) ==
    LET k == FindFrom(s, sep, 1)
    IN  IF k = 0 THEN <<s>>
        ELSE <<SubSeq(s, 1, k - 1)>> \o Split(SubSeq(s, k + 1, Len(s)), sep)

\* seq[:n]
Take(seq, n) == SubSeq(seq, 1, IF Len(seq) < n THEN Len(seq) ELSE n)

\* str.replace(old, new)
RECURSIVE Replace(_, _, _)
Replace(s, old, new) ==
    IF Len(s) < Len(old) \/ Len(old) = 0 THEN s
    ELSE IF SubSeq(s, 1, Len(old)) = old
         THEN new \o Replace(SubSeq(s, Len(old) + 1, Len(s)), old, new)
         ELSE SubSeq(s, 1, 1) \o Replace(SubSeq(s, 2, Len(s)), old, new)

\* str.startswith(p)
StartsWith(s, p) == Len(s) >= Len(p) /\ SubSeq(s, 1, Len(p)) = p

\* ------------------------------------------------------------ static data
MOCK_NOTICES == <<
    [title |-> "Class Schedule Update", date |-> "2025-08-20",
     details |-> "New schedule for Fall 2025 released."],
    [title |-> "Exam Postponed", date |-> "2025-08-22",
     details |-> "Midterm exams rescheduled to Nov 2025."] >>
MOCK_EVENTS == << [date |-> "2025-09-15", details |-> "Join the annual coding challenge!",
     name |-> "UIU Hackathon 2025"] >>
MOCK_ROADMAP == [title |-> "Generic Roadmap"]
MOCK_FACULTY == <<
    [name |-> "Dr. Suman Ahmmed", designation |-> "Head", department |-> "CSE",
     email |-> "suman@cse.uiu.ac.bd", phone |-> "N/A", expertise |-> "AI, ML"],
    [name |-> "Dr. Rumana Afrin", designation |-> "Head",
     department |-> "Civil Engineering", email |-> "rumana@ce.uiu.ac.bd",
     phone |-> "N/A", expertise |-> "Structural Engineering"],
    [name |-> "Dr. Mohammad Musa", designation |-> "Dean",
     department |-> "Business Administration", email |-> "musa@sobe.uiu.ac.bd",
     phone |-> "N/A", expertise |-> "Finance"],
    [name |-> "Dr. Mohammad Omar Farooq", designation |-> "Head",
     department |-> "Economics", email |-> "farooq@sobe.uiu.ac.bd",
     phone |-> "N/A", expertise |-> "Economic Policy"] >>
MOCK_JOBS == <<
    [title |-> "AI Internship at Grameenphone", company |-> "Grameenphone",
     location |-> "Remote", link |-> "http://example.com"] >>
MOCK_TRENDING == <<
    [repo |-> "example/repo", description |-> "A trending Python project",
     language |-> "Python", stars |-> "1.2k"] >>
MOCK_RESOURCES == <<
    [title |-> "Learn Python",
     link |-> "https://freecodecamp.org/learn/python",
     platform |-> "freeCodeCamp"] >>
MOCK_STACKOVERFLOW == <<
    [title |-> "How to debug Python code",
     link |-> "https://stackoverflow.com/questions/12345",
     tags |-> "python, debugging"] >>

MOCK_SCHOLARSHIPS == <<
    [details |-> "For students with CGPA > 3.5",
     name |-> "UIU Merit Scholarship", link |-> "http://www.uiu.ac.bd"] >>

\* the module-level lists as lines 70-103 build them
MockData ==
    [notices |-> MOCK_NOTICES, events |-> MOCK_EVENTS,
     scholarships |-> MOCK_SCHOLARSHIPS, roadmap |-> MOCK_ROADMAP,
     faculty |-> MOCK_FACULTY, jobs |-> MOCK_JOBS, trending |-> MOCK_TRENDING,
     resources |-> MOCK_RESOURCES, stackoverflow |-> MOCK_STACKOVERFLOW]

\* ------------------------------------------------------------------ state
VARIABLES
    now,                 \* time.time(), whole seconds
    ticks,               \* clock advances so far
    user_last_scrape,    \* dict user_id -> stamp
    temp,                \* the temp_* buffers: temp.calendar is temp_calendar, ...
    roadmaps,            \* table roadmaps, rows in rowid order
    user_profiles,       \* table user_profiles, rows in user_id order
    reply,               \* the reply of the request handled last
    last_ok,             \* history: time of each user's last granted can_scrape
    last_crawl,          \* history: time each user's last crawl was started
    buttons,             \* history: callback_data of the inline buttons sent
    mock_data,           \* the MOCK_* lists: mock_data.faculty is MOCK_FACULTY, ...
    fetch,               \* a call of scrape_dynamic_content: its inputs and outcome
    reminders_table,     \* table reminders, rows in rowid order
    listed               \* history: the mentor each Contact button was sent for

vars == <<now, ticks, user_last_scrape, temp, roadmaps, user_profiles, reply,
          last_ok, last_crawl, buttons, mock_data, fetch, reminders_table, listed>>

\* dict.get(k, default)
Get(d, k, default) == IF k \in DOMAIN d THEN d[k] ELSE default

\* d[k] = v
Put(d, k, v) == [x \in DOMAIN d \cup {k} |-> IF x = k THEN v ELSE d[x]]

\* lines 59-67
EmptyTemp == [notices |-> <<>>, faculty |-> <<>>, jobs |-> <<>>,
              trending |-> <<>>, resources |-> <<>>, stackoverflow |-> <<>>,
              calendar |-> <<>>, faculty_urls |-> {}]

NoReply == [user |-> 0, cmd |-> "none", key |-> "", kind |-> "none",
            recs |-> <<>>, crawl |-> FALSE, raised |-> FALSE, level |-> "",
            stale |-> ""]

\* what a handler sends: kind is "live" (data header), "mock" (the
\* "Using mock data" header), "wait", "error" (the generic except reply),
\* "usage", "prompt", "notfound", "info" or "ok"; crawl / raised record
\* whether the request started a crawl and whether that crawl raised; level
\* and stale are the level and the outcome of the staleness check of a
\* /roadmap request ("" when the check was not reached)
Reply(u, cmd, key, kind, recs, crawl, raised) ==
    [user |-> u, cmd |-> cmd, key |-> key, kind |-> kind, recs |-> recs,
     crawl |-> crawl, raised |-> raised, level |-> "", stale |-> ""]

\* ------------------------------------------------------------ rate limiter
\* can_scrape with the stamp written before the check is made
can_scrape_StampFirst(stamps, t, user_id) ==
    LET last_scrape == Get(stamps, user_id, 0)
    IN  [stamps |-> Put(stamps, user_id, t), ok |-> ~(t - last_scrape < Cooldown)]

\* can_scrape with the check alone: line 363 left out
can_scrape_CheckOnly(stamps, t, user_id) ==
    LET last_scrape == Get(stamps, user_id, 0)
    IN  [stamps |-> stamps, ok |-> ~(t - last_scrape < Cooldown)]

can_scrape(stamps, t, user_id) ==
    LET last_scrape == Get(stamps, user_id, 0)
    IN  IF t - last_scrape < Cooldown
        THEN [stamps |-> stamps, ok |-> FALSE]
        ELSE [stamps |-> Put(stamps, user_id, t), ok |-> TRUE]

\* ---------------------------------------------------------------- spiders
\* A crawl (CrawlerProcess.crawl + start) either raises or hands the spider's
\* parse the responses that arrived, in their order of arrival; a start URL
\* whose download failed gets no parse call.  A response is [url, items]:
\* items are the elements the spider's selector finds, already as the fields
\* its css(...).get(default=...) calls read.  The field src of an item is
\* history: the kind, query key and user of the fetch that extracted it.
Raised == [raised |-> TRUE, responses |-> <<>>]
Got(responses) == [raised |-> FALSE, responses |-> responses]
Response(url, items) == [url |-> url, items |-> items]
Src(kind, key, u) == [user |-> u, key |-> key, kind |-> kind]

CalendarUrl == "https://www.uiu.ac.bd/academic-calendars"
ResourcesUrls == <<"https://www.freecodecamp.org/learn/",
                   "https://www.coursera.org/courses?query=open%20source",
                   "https://www.edx.org/search?q=open%20source">>
JobsUrls == <<"https://www.internshala.com/internships",
              "https://www.bdjobs.com/",
              "https://www.linkedin.com/jobs/search/?keywords=internship&location=Bangladesh",
              "https://weworkremotely.com/">>
FacultyUrls == <<"https://cse.uiu.ac.bd/faculty-members/",
                 "https://eee.uiu.ac.bd/faculty/",
                 "https://ce.uiu.ac.bd/faculty-members/",
                 "https://sobe.uiu.ac.bd/bba-faculty/",
                 "https://pharmacy.uiu.ac.bd/faculty-members/",
                 "https://ins.uiu.ac.bd/faculty-members/",
                 "https://www.uiu.ac.bd/faculty-members/">>
NoticeUrl == "https://www.uiu.ac.bd"

\* TrendingSpider.__init__
TrendingUrl(language) ==
    IF language = "" THEN "https://github.com/trending"
    ELSE "https://github.com/trending/" \o language

\* StackOverflowSpider.__init__
StackOverflowUrl(tag) ==
    IF tag = "" THEN "https://stackoverflow.com/questions"
    ELSE "https://stackoverflow.com/questions/tagged/" \o tag

\* RoadmapSpider.__init__
RoadmapUrl(roadmap_type) == "https://roadmap.sh/" \o roadmap_type

CalendarSpider_parse(t, response) ==
    [t EXCEPT !.calendar = Take(response.items, CapItems)]

ResourcesSpider_parse(t, response) ==
    LET platform == Replace(Split(response.url, "/")[3], "www.", "")
        courses == Take(response.items, CapItems)
        Course(c) == [title |-> c.title,
                      link |-> IF StartsWith(c.link, "http") THEN c.link
                               ELSE "https://" \o platform \o c.link,
                      platform |-> platform, src |-> c.src]
    IN  [t EXCEPT !.resources = [i \in 1..Len(courses) |-> Course(courses[i])]]

TrendingSpider_parse(t, response) ==
    [t EXCEPT !.trending = Take(response.items, CapItems)]

StackOverflowSpider_parse(t, response) ==
    LET questions == Take(response.items, CapItems)
        Question(q) == [title |-> q.title,
                        link |-> "https://stackoverflow.com" \o q.link,
                        tags |-> q.tags, src |-> q.src]
    IN  [t EXCEPT !.stackoverflow =
             [i \in 1..Len(questions) |-> Question(questions[i])]]

JobsSpider_parse(t, response) ==
    LET jobs == Take(response.items, CapItems)
        Job(j) == [title |-> j.title, company |-> j.company,
                   location |-> IF Contains("weworkremotely", response.url)
                                   /\ ~Contains("internshala", response.url)
                                   /\ ~Contains("bdjobs", response.url)
                                   /\ ~Contains("linkedin", response.url)
                                THEN "Remote" ELSE j.location,
                   link |-> IF Contains("internshala", response.url)
                            THEN "https://www.internshala.com" \o j.link
                            ELSE IF Contains("bdjobs", response.url)
                                    \/ Contains("linkedin", response.url)
                            THEN j.link
                            ELSE "https://weworkremotely.com" \o j.link,
                   src |-> j.src]
        known == \/ Contains("internshala", response.url)
                 \/ Contains("bdjobs", response.url)
                 \/ Contains("linkedin", response.url)
                 \/ Contains("weworkremotely", response.url)
    IN  [t EXCEPT !.jobs = IF known THEN [i \in 1..Len(jobs) |-> Job(jobs[i])]
                           ELSE <<>>]

NoticeSpider_parse(t, response) ==
    [t EXCEPT !.notices = Take(response.items, CapNotices)]

\* FacultySpider.get_department
get_department(url) ==
    IF Contains("cse.uiu.ac.bd", url) THEN "Computer Science and Engineering"
    ELSE IF Contains("eee.uiu.ac.bd", url) THEN "Electrical and Electronic Engineering"
    ELSE IF Contains("ce.uiu.ac.bd", url) THEN "Civil Engineering"
    ELSE IF Contains("sobe.uiu.ac.bd", url) THEN "Business Administration"
    ELSE IF Contains("pharmacy.uiu.ac.bd", url) THEN "Pharmacy"
    ELSE IF Contains("ins.uiu.ac.bd", url) THEN "Institute of Natural Sciences"
    ELSE "Economics, English, EDS, MSJ, or BGE"

FacultySpider_parse(t, response) ==
    LET Member(f) == [name |-> f.name, designation |-> f.designation,
                      department |-> get_department(response.url),
                      email |-> f.email, phone |-> f.phone,
                      expertise |-> f.expertise, src |-> f.src]
    IN  IF response.url \in t.faculty_urls THEN t
        ELSE [t EXCEPT !.faculty_urls = @ \cup {response.url},
                       !.faculty = @ \o [i \in 1..Len(response.items) |->
                                            Member(response.items[i])]]

\* the parse callback of the spider named
Parse(spider, t, response) ==
    CASE spider = "calendar" -> CalendarSpider_parse(t, response)
      [] spider = "resources" -> ResourcesSpider_parse(t, response)
      [] spider = "trending" -> TrendingSpider_parse(t, response)
      [] spider = "stackoverflow" -> StackOverflowSpider_parse(t, response)
      [] spider = "jobs" -> JobsSpider_parse(t, response)
      [] spider = "uiu_notice" -> NoticeSpider_parse(t, response)
      [] spider = "faculty" -> FacultySpider_parse(t, response)

\* process.crawl(Spider); process.start(): the buffers after the crawl
RECURSIVE RunSpider(_, _, _)
RunSpider(spider, t, responses) ==
    IF responses = <<>> THEN t
    ELSE RunSpider(spider, Parse(spider, t, Head(responses)), Tail(responses))

\* ---------------------------------------------------------------- fetcher
\* retries=2, the default of scrape_dynamic_content
Retries == 2

\* return None / return content
None == <<>>
Content(page) == <<page>>

NoFetch == [raised |-> FALSE, url |-> "", browser |-> <<>>, done |-> FALSE,
            value |-> None, attempts |-> 0]

\* What the browser does at one attempt: fails is "" when every call of the
\* try block returns, else the call that raises: "install" is
\* ChromeDriverManager().install() (a download error, not a WebDriverException),
\* "get" is driver.get(url), "quit" is driver.quit(), both WebDriverException.
\* page is driver.page_source.
\*
\* scrape_dynamic_content catching WebDriverException in place of Exception
RECURSIVE scrape_dynamic_content_CatchWebDriver(_, _, _, _)
scrape_dynamic_content_CatchWebDriver(url, retries, browser, attempt) ==
    IF attempt >= retries
    THEN [raised |-> FALSE, value |-> None, attempts |-> attempt]
    ELSE IF browser[attempt + 1].fails = ""
    THEN [raised |-> FALSE, value |-> Content(browser[attempt + 1].page),
          attempts |-> attempt + 1]
    ELSE IF browser[attempt + 1].fails = "install"
    THEN [raised |-> TRUE, value |-> None, attempts |-> attempt + 1]
    ELSE scrape_dynamic_content_CatchWebDriver(url, retries, browser, attempt + 1)

\* the loop of scrape_dynamic_content from `attempt` on (range(retries)
\* counts from 0): the value returned and the attempts made
RECURSIVE scrape_dynamic_content(_, _, _, _)
scrape_dynamic_content(url, retries, browser, attempt) ==
    IF attempt >= retries
    THEN [raised |-> FALSE, value |-> None, attempts |-> attempt]
    ELSE IF browser[attempt + 1].fails = ""
    THEN [raised |-> FALSE, value |-> Content(browser[attempt + 1].page),
          attempts |-> attempt + 1]
    ELSE scrape_dynamic_content(url, retries, browser, attempt + 1)

\* a caller runs scrape_dynamic_content(url) to its end
CallFetcher ==
    /\ ~fetch.done
    /\ fetch.url # ""
    /\ LET r == scrape_dynamic_content(fetch.url, Retries, fetch.browser, 0)
       IN  fetch' = [fetch EXCEPT !.raised = r.raised, !.done = TRUE,
                                  !.value = r.value, !.attempts = r.attempts]
    /\ UNCHANGED <<listed, reminders_table, mock_data, now, ticks, user_last_scrape, temp,
                   roadmaps, user_profiles, reply, last_ok, last_crawl, buttons>>

\* --------------------------------------------------------------- handlers
\* the rate-limit gate as a handler runs it: the stamp store after the call,
\* and the history of grants
Gate(u, g) ==
    /\ user_last_scrape' = g.stamps
    /\ last_ok' = IF g.ok THEN [last_ok EXCEPT ![u] = now] ELSE last_ok

\* history: a crawl is started for u now
CrawlStarted(u) == last_crawl' = [last_crawl EXCEPT ![u] = now]

\* args[0].lower() if args else None (None and "" are both falsy)
FirstArgLower(args) == IF Len(args) > 0 THEN Lower(args[1]) ELSE ""

\* any(term in field.lower() for term in terms) over the fields given
MatchesAny(terms, fields) ==
    \E i \in 1..Len(terms) : \E j \in 1..Len(fields) :
        Contains(terms[i], Lower(fields[j]))

calendar(u, out) ==
    LET g == can_scrape(user_last_scrape, now, u)
        t == RunSpider("calendar", temp, out.responses)
    IN  /\ Gate(u, g)
        /\ IF ~g.ok
           THEN /\ reply' = Reply(u, "calendar", "", "wait", <<>>, FALSE, FALSE)
                /\ UNCHANGED <<temp, last_crawl>>
           ELSE /\ CrawlStarted(u)
                /\ IF out.raised
                   THEN /\ reply' = Reply(u, "calendar", "", "error", <<>>, TRUE, TRUE)
                        /\ UNCHANGED temp
                   ELSE /\ temp' = t
                        /\ reply' = IF t.calendar # <<>>
                                    THEN Reply(u, "calendar", "", "live", t.calendar, TRUE, FALSE)
                                    ELSE Reply(u, "calendar", "", "mock", mock_data.events, TRUE, FALSE)
        /\ buttons' = IF reply'.kind = "live"
                       THEN buttons \cup {"add_reminder_calendar"}
                       ELSE buttons
        /\ UNCHANGED <<listed, reminders_table, fetch, mock_data, now, ticks, roadmaps, user_profiles>>

\* ResourcesFilter with the slice [1:6] in place of [:5]
ResourcesFilter_SkipFirst(recs, keyword, profile) ==
    LET has == keyword # "" \/ (profile # <<>> /\ profile[1].favorite_roadmaps # "")
        filter_terms == IF keyword # "" THEN <<keyword>>
                        ELSE Split(profile[1].favorite_roadmaps, ",")
        filtered == IF has
                    THEN SelectSeq(recs, LAMBDA r : MatchesAny(filter_terms, <<r.title>>))
                    ELSE recs
    IN  Take(SubSeq(filtered, 2, Len(filtered)), CapItems)

\* ResourcesFilter with the slice [:3] of /recommend in place of [:5]
ResourcesFilter_Cap3(recs, keyword, profile) ==
    LET has == keyword # "" \/ (profile # <<>> /\ profile[1].favorite_roadmaps # "")
        filter_terms == IF keyword # "" THEN <<keyword>>
                        ELSE Split(profile[1].favorite_roadmaps, ",")
        filtered == IF has
                    THEN SelectSeq(recs, LAMBDA r : MatchesAny(filter_terms, <<r.title>>))
                    ELSE recs
    IN  Take(filtered, CapRecommend)

\* the records /resources shows from a non-empty temp_resources
ResourcesFilter(recs, keyword, profile) ==
    LET has == keyword # "" \/ (profile # <<>> /\ profile[1].favorite_roadmaps # "")
        filter_terms == IF keyword # "" THEN <<keyword>>
                        ELSE Split(profile[1].favorite_roadmaps, ",")
        filtered == IF has
                    THEN SelectSeq(recs, LAMBDA r : MatchesAny(filter_terms, <<r.title>>))
                    ELSE recs
    IN  Take(filtered, CapItems)

\* c.fetchone() of a SELECT ... FROM user_profiles WHERE user_id = ?:
\* <<the columns of the first row found>> or <<>> for None
ProfileIn(table, u) ==
    LET rows == SelectSeq(table, LAMBDA r : r.user_id = u)
    IN  IF rows = <<>> THEN <<>>
        ELSE <<[department |-> rows[1].department,
                favorite_roadmaps |-> rows[1].favorite_roadmaps,
                year |-> rows[1].year]>>

\* the profile read from the table as it stands
ProfileOf(u) == ProfileIn(user_profiles, u)

resources(u, args, out) ==
    LET keyword == FirstArgLower(args)
        g == can_scrape(user_last_scrape, now, u)
        t == RunSpider("resources", temp, out.responses)
    IN  /\ Gate(u, g)
        /\ IF ~g.ok
           THEN /\ reply' = Reply(u, "resources", keyword, "wait", <<>>, FALSE, FALSE)
                /\ UNCHANGED <<temp, last_crawl>>
           ELSE /\ CrawlStarted(u)
                /\ IF out.raised
                   THEN /\ reply' = Reply(u, "resources", keyword, "error", <<>>, TRUE, TRUE)
                        /\ UNCHANGED temp
                   ELSE /\ temp' = t
                        /\ reply' = IF t.resources # <<>>
                                    THEN Reply(u, "resources", keyword, "live",
                                               ResourcesFilter(t.resources, keyword, ProfileOf(u)),
                                               TRUE, FALSE)
                                    ELSE Reply(u, "resources", keyword, "mock",
                                               mock_data.resources, TRUE, FALSE)
        /\ UNCHANGED <<listed, reminders_table, fetch, mock_data, now, ticks, roadmaps, user_profiles, buttons>>

trending(u, args, out) ==
    LET language == FirstArgLower(args)
        g == can_scrape(user_last_scrape, now, u)
        t == RunSpider("trending", temp, out.responses)
    IN  /\ Gate(u, g)
        /\ IF ~g.ok
           THEN /\ reply' = Reply(u, "trending", language, "wait", <<>>, FALSE, FALSE)
                /\ UNCHANGED <<temp, last_crawl>>
           ELSE /\ CrawlStarted(u)
                /\ IF out.raised
                   THEN /\ reply' = Reply(u, "trending", language, "error", <<>>, TRUE, TRUE)
                        /\ UNCHANGED temp
                   ELSE /\ temp' = t
                        /\ reply' = IF t.trending # <<>>
                                    THEN Reply(u, "trending", language, "live", t.trending, TRUE, FALSE)
                                    ELSE Reply(u, "trending", language, "mock", mock_data.trending, TRUE, FALSE)
        /\ UNCHANGED <<listed, reminders_table, fetch, mock_data, now, ticks, roadmaps, user_profiles, buttons>>

stackoverflow(u, args, out) ==
    LET tag == FirstArgLower(args)
        g == can_scrape(user_last_scrape, now, u)
        t == RunSpider("stackoverflow", temp, out.responses)
    IN  /\ Gate(u, g)
        /\ IF ~g.ok
           THEN /\ reply' = Reply(u, "stackoverflow", tag, "wait", <<>>, FALSE, FALSE)
                /\ UNCHANGED <<temp, last_crawl>>
           ELSE /\ CrawlStarted(u)
                /\ IF out.raised
                   THEN /\ reply' = Reply(u, "stackoverflow", tag, "error", <<>>, TRUE, TRUE)
                        /\ UNCHANGED temp
                   ELSE /\ temp' = t
                        /\ reply' = IF t.stackoverflow # <<>>
                                    THEN Reply(u, "stackoverflow", tag, "live", t.stackoverflow, TRUE, FALSE)
                                    ELSE Reply(u, "stackoverflow", tag, "mock", mock_data.stackoverflow, TRUE, FALSE)
        /\ UNCHANGED <<listed, reminders_table, fetch, mock_data, now, ticks, roadmaps, user_profiles, buttons>>

\* the records /jobs shows from a non-empty temp_jobs
JobsFilter(recs, keyword, profile) ==
    LET has == keyword # "" \/ (profile # <<>> /\ profile[1].favorite_roadmaps # "")
        filter_terms == IF keyword # "" THEN <<keyword, "bangladesh", "uiu">>
                        ELSE Split(profile[1].favorite_roadmaps, ",") \o <<"bangladesh", "uiu">>
        filtered == IF has
                    THEN SelectSeq(recs, LAMBDA j :
                             MatchesAny(filter_terms, <<j.title, j.company, j.location>>))
                    ELSE recs
    IN  Take(filtered, CapItems)

jobs(u, args, out) ==
    LET keyword == FirstArgLower(args)
        g == can_scrape(user_last_scrape, now, u)
        t == RunSpider("jobs", temp, out.responses)
    IN  /\ Gate(u, g)
        /\ IF ~g.ok
           THEN /\ reply' = Reply(u, "jobs", keyword, "wait", <<>>, FALSE, FALSE)
                /\ UNCHANGED <<temp, last_crawl>>
           ELSE /\ CrawlStarted(u)
                /\ IF out.raised
                   THEN /\ reply' = Reply(u, "jobs", keyword, "error", <<>>, TRUE, TRUE)
                        /\ UNCHANGED temp
                   ELSE /\ temp' = t
                        /\ reply' = IF t.jobs # <<>>
                                    THEN Reply(u, "jobs", keyword, "live",
                                               JobsFilter(t.jobs, keyword, ProfileOf(u)),
                                               TRUE, FALSE)
                                    ELSE Reply(u, "jobs", keyword, "mock", mock_data.jobs, TRUE, FALSE)
        /\ buttons' = IF reply'.kind = "live"
                       THEN buttons \cup {"add_reminder_job"}
                       ELSE buttons
        /\ UNCHANGED <<listed, reminders_table, fetch, mock_data, now, ticks, roadmaps, user_profiles>>

notice(u, out) ==
    LET g == can_scrape(user_last_scrape, now, u)
        t == RunSpider("uiu_notice", temp, out.responses)
    IN  /\ Gate(u, g)
        /\ IF ~g.ok
           THEN /\ reply' = Reply(u, "notice", "", "wait", <<>>, FALSE, FALSE)
                /\ UNCHANGED <<temp, last_crawl>>
           ELSE /\ CrawlStarted(u)
                /\ IF out.raised
                   THEN /\ reply' = Reply(u, "notice", "", "error", <<>>, TRUE, TRUE)
                        /\ UNCHANGED temp
                   ELSE /\ temp' = t
                        /\ reply' = IF t.notices # <<>>
                                    THEN Reply(u, "notice", "", "live", t.notices, TRUE, FALSE)
                                    ELSE Reply(u, "notice", "", "mock", mock_data.notices, TRUE, FALSE)
        /\ UNCHANGED <<listed, reminders_table, fetch, mock_data, now, ticks, roadmaps, user_profiles, buttons>>

\* [f for f in faculty if query in f['department'].lower()
\*                        or query in f['expertise'].lower()]
FacultyFilter(faculty, query) ==
    SelectSeq(faculty, LAMBDA f :
        Contains(query, Lower(f.department)) \/ Contains(query, Lower(f.expertise)))

\* mentor filtering the list MOCK_FACULTY itself for its fallback reply
mentor_FilterMockInPlace(u, args, out) ==
    IF Len(args) = 0 \/ Lower(args[1]) # "find" \/ Len(args) < 2
    THEN /\ reply' = Reply(u, "mentor", "", "usage", <<>>, FALSE, FALSE)
         /\ UNCHANGED <<listed, reminders_table, fetch, mock_data, now, ticks, user_last_scrape, temp, roadmaps,
                        user_profiles, last_ok, last_crawl, buttons>>
    ELSE
    LET query == Lower(args[2])
        g == can_scrape(user_last_scrape, now, u)
        cleared == [temp EXCEPT !.faculty = <<>>, !.faculty_urls = {}]
        t == RunSpider("faculty", cleared, out.responses)
        filtered_faculty == FacultyFilter(t.faculty, query)
    IN  /\ Gate(u, g)
        /\ IF ~g.ok
           THEN /\ reply' = Reply(u, "mentor", query, "wait", <<>>, FALSE, FALSE)
                /\ UNCHANGED <<temp, last_crawl>>
           ELSE /\ CrawlStarted(u)
                /\ IF out.raised
                   THEN /\ reply' = Reply(u, "mentor", query, "error", <<>>, TRUE, TRUE)
                        /\ temp' = cleared
                   ELSE /\ temp' = t
                        /\ reply' = IF t.faculty # <<>> /\ filtered_faculty # <<>>
                                    THEN Reply(u, "mentor", query, "live", filtered_faculty, TRUE, FALSE)
                                    ELSE Reply(u, "mentor", query, "mock",
                                               FacultyFilter(mock_data.faculty, query), TRUE, FALSE)
        /\ buttons' = IF reply'.kind = "live"
                       THEN buttons \cup {"contact_" \o Replace(reply'.recs[i].name, " ", "_") :
                                         i \in 1..Len(Take(reply'.recs, CapItems))}
                       ELSE buttons
        /\ mock_data' = IF reply'.kind = "mock"
                         THEN [mock_data EXCEPT !.faculty = reply'.recs]
                         ELSE mock_data
        /\ listed' = IF reply'.kind = "live"
                      THEN listed \cup {[email |-> reply'.recs[i].email,
                                         phone |-> reply'.recs[i].phone,
                                         data |-> "contact_" \o Replace(reply'.recs[i].name, " ", "_")] :
                                        i \in 1..Len(Take(reply'.recs, CapItems))}
                      ELSE listed
        /\ UNCHANGED <<reminders_table, fetch, now, ticks, roadmaps, user_profiles>>

\* mentor calling can_scrape before it looks at its arguments
mentor_GateBeforeUsage(u, args, out) ==
    IF Len(args) = 0 \/ Lower(args[1]) # "find" \/ Len(args) < 2
    THEN /\ reply' = Reply(u, "mentor", "", "usage", <<>>, FALSE, FALSE)
         /\ Gate(u, can_scrape(user_last_scrape, now, u))
         /\ UNCHANGED <<listed, reminders_table, fetch, mock_data, now, ticks, temp, roadmaps,
                        user_profiles, last_crawl, buttons>>
    ELSE
    LET query == Lower(args[2])
        g == can_scrape(user_last_scrape, now, u)
        cleared == [temp EXCEPT !.faculty = <<>>, !.faculty_urls = {}]
        t == RunSpider("faculty", cleared, out.responses)
        filtered_faculty == FacultyFilter(t.faculty, query)
    IN  /\ Gate(u, g)
        /\ IF ~g.ok
           THEN /\ reply' = Reply(u, "mentor", query, "wait", <<>>, FALSE, FALSE)
                /\ UNCHANGED <<temp, last_crawl>>
           ELSE /\ CrawlStarted(u)
                /\ IF out.raised
                   THEN /\ reply' = Reply(u, "mentor", query, "error", <<>>, TRUE, TRUE)
                        /\ temp' = cleared
                   ELSE /\ temp' = t
                        /\ reply' = IF t.faculty # <<>> /\ filtered_faculty # <<>>
                                    THEN Reply(u, "mentor", query, "live", filtered_faculty, TRUE, FALSE)
                                    ELSE Reply(u, "mentor", query, "mock",
                                               FacultyFilter(mock_data.faculty, query), TRUE, FALSE)
        /\ buttons' = IF reply'.kind = "live"
                       THEN buttons \cup {"contact_" \o Replace(reply'.recs[i].name, " ", "_") :
                                         i \in 1..Len(Take(reply'.recs, CapItems))}
                       ELSE buttons
        /\ listed' = IF reply'.kind = "live"
                      THEN listed \cup {[email |-> reply'.recs[i].email,
                                         phone |-> reply'.recs[i].phone,
                                         data |-> "contact_" \o Replace(reply'.recs[i].name, " ", "_")] :
                                        i \in 1..Len(Take(reply'.recs, CapItems))}
                      ELSE listed
        /\ UNCHANGED <<reminders_table, fetch, mock_data, now, ticks, roadmaps, user_profiles>>

\* mentor with the two clear() calls of lines 672-673 moved before the gate
mentor_ClearBeforeGate(u, args, out) ==
    IF Len(args) = 0 \/ Lower(args[1]) # "find" \/ Len(args) < 2
    THEN /\ reply' = Reply(u, "mentor", "", "usage", <<>>, FALSE, FALSE)
         /\ UNCHANGED <<listed, reminders_table, fetch, mock_data, now, ticks, user_last_scrape, temp, roadmaps,
                        user_profiles, last_ok, last_crawl, buttons>>
    ELSE
    LET query == Lower(args[2])
        g == can_scrape(user_last_scrape, now, u)
        cleared == [temp EXCEPT !.faculty = <<>>, !.faculty_urls = {}]
        t == RunSpider("faculty", cleared, out.responses)
        filtered_faculty == FacultyFilter(t.faculty, query)
    IN  /\ Gate(u, g)
        /\ IF ~g.ok
           THEN /\ reply' = Reply(u, "mentor", query, "wait", <<>>, FALSE, FALSE)
                /\ temp' = cleared
                /\ UNCHANGED last_crawl
           ELSE /\ CrawlStarted(u)
                /\ IF out.raised
                   THEN /\ reply' = Reply(u, "mentor", query, "error", <<>>, TRUE, TRUE)
                        /\ temp' = cleared
                   ELSE /\ temp' = t
                        /\ reply' = IF t.faculty # <<>> /\ filtered_faculty # <<>>
                                    THEN Reply(u, "mentor", query, "live", filtered_faculty, TRUE, FALSE)
                                    ELSE Reply(u, "mentor", query, "mock",
                                               FacultyFilter(mock_data.faculty, query), TRUE, FALSE)
        /\ buttons' = IF reply'.kind = "live"
                       THEN buttons \cup {"contact_" \o Replace(reply'.recs[i].name, " ", "_") :
                                         i \in 1..Len(Take(reply'.recs, CapItems))}
                       ELSE buttons
        /\ listed' = IF reply'.kind = "live"
                      THEN listed \cup {[email |-> reply'.recs[i].email,
                                         phone |-> reply'.recs[i].phone,
                                         data |-> "contact_" \o Replace(reply'.recs[i].name, " ", "_")] :
                                        i \in 1..Len(Take(reply'.recs, CapItems))}
                      ELSE listed
        /\ UNCHANGED <<reminders_table, fetch, mock_data, now, ticks, roadmaps, user_profiles>>

mentor(u, args, out) ==
    IF Len(args) = 0 \/ Lower(args[1]) # "find" \/ Len(args) < 2
    THEN /\ reply' = Reply(u, "mentor", "", "usage", <<>>, FALSE, FALSE)
         /\ UNCHANGED <<listed, reminders_table, fetch, mock_data, now, ticks, user_last_scrape, temp, roadmaps,
                        user_profiles, last_ok, last_crawl, buttons>>
    ELSE
    LET query == Lower(args[2])
        g == can_scrape(user_last_scrape, now, u)
        cleared == [temp EXCEPT !.faculty = <<>>, !.faculty_urls = {}]
        t == RunSpider("faculty", cleared, out.responses)
        filtered_faculty == FacultyFilter(t.faculty, query)
    IN  /\ Gate(u, g)
        /\ IF ~g.ok
           THEN /\ reply' = Reply(u, "mentor", query, "wait", <<>>, FALSE, FALSE)
                /\ UNCHANGED <<temp, last_crawl>>
           ELSE /\ CrawlStarted(u)
                /\ IF out.raised
                   THEN /\ reply' = Reply(u, "mentor", query, "error", <<>>, TRUE, TRUE)
                        /\ temp' = cleared
                   ELSE /\ temp' = t
                        /\ reply' = IF t.faculty # <<>> /\ filtered_faculty # <<>>
                                    THEN Reply(u, "mentor", query, "live", filtered_faculty, TRUE, FALSE)
                                    ELSE Reply(u, "mentor", query, "mock",
                                               FacultyFilter(mock_data.faculty, query), TRUE, FALSE)
        /\ buttons' = IF reply'.kind = "live"
                       THEN buttons \cup {"contact_" \o Replace(reply'.recs[i].name, " ", "_") :
                                         i \in 1..Len(Take(reply'.recs, CapItems))}
                       ELSE buttons
        /\ listed' = IF reply'.kind = "live"
                      THEN listed \cup {[email |-> reply'.recs[i].email,
                                         phone |-> reply'.recs[i].phone,
                                         data |-> "contact_" \o Replace(reply'.recs[i].name, " ", "_")] :
                                        i \in 1..Len(Take(reply'.recs, CapItems))}
                      ELSE listed
        /\ UNCHANGED <<reminders_table, fetch, mock_data, now, ticks, roadmaps, user_profiles>>

\* RecommendFromTemp giving up at an empty resources buffer
RecommendFromTemp_StopAtEmpty(t, favorite) ==
    LET terms == Split(favorite, ",")
        filtered_resources ==
            SelectSeq(t.resources, LAMBDA r : MatchesAny(terms, <<r.title>>))
        filtered_trending ==
            SelectSeq(t.trending, LAMBDA r : MatchesAny(terms, <<r.language>>))
        filtered_jobs ==
            SelectSeq(t.jobs, LAMBDA j : MatchesAny(terms, <<j.title, j.company>>))
    IN  IF t.resources = <<>> THEN <<>>
        ELSE Take(filtered_resources, CapRecommend)
             \o Take(filtered_trending, CapRecommend)
             \o Take(filtered_jobs, CapRecommend)

\* the records of /recommend from the buffers as they stand: resources,
\* repos, jobs, in this order
RecommendFromTemp(t, favorite) ==
    LET terms == Split(favorite, ",")
        filtered_resources ==
            SelectSeq(t.resources, LAMBDA r : MatchesAny(terms, <<r.title>>))
        filtered_trending ==
            SelectSeq(t.trending, LAMBDA r : MatchesAny(terms, <<r.language>>))
        filtered_jobs ==
            SelectSeq(t.jobs, LAMBDA j : MatchesAny(terms, <<j.title, j.company>>))
    IN  Take(filtered_resources, CapRecommend) \o Take(filtered_trending, CapRecommend)
        \o Take(filtered_jobs, CapRecommend)

\* [f for f in faculty if dept.lower() in f['department'].lower()
\*                        or roadmaps.split(',')[0] in f['expertise'].lower()]
RecommendMentors(faculty, dept, favorite) ==
    SelectSeq(faculty, LAMBDA f :
        \/ Contains(Lower(dept), Lower(f.department))
        \/ Contains(Split(favorite, ",")[1], Lower(f.expertise)))

\* recommend with the two clear() calls of lines 1057-1058 made before the
\* profile is tested
recommend_ClearFirst(u, out) ==
    LET profile == ProfileOf(u)
    IN  IF profile # <<>> /\ profile[1].favorite_roadmaps # ""
        THEN LET favorite == profile[1].favorite_roadmaps
                 dept == profile[1].department
                 cleared == [temp EXCEPT !.faculty = <<>>, !.faculty_urls = {}]
                 t == RunSpider("faculty", cleared, out.responses)
                 shown == RecommendFromTemp(temp, favorite)
             IN  /\ CrawlStarted(u)
                 /\ IF out.raised
                    THEN /\ temp' = cleared
                         /\ reply' = Reply(u, "recommend", "", "live",
                                shown \o RecommendMentors(mock_data.faculty, dept, favorite),
                                TRUE, TRUE)
                    ELSE /\ temp' = t
                         /\ reply' = Reply(u, "recommend", "", "live",
                                shown \o Take(RecommendMentors(t.faculty, dept, favorite),
                                              CapRecommend),
                                TRUE, FALSE)
                 /\ UNCHANGED <<listed, reminders_table, fetch, mock_data, now, ticks, user_last_scrape, roadmaps,
                                user_profiles, last_ok, buttons>>
        ELSE /\ reply' = Reply(u, "recommend", "", "prompt", <<>>, FALSE, FALSE)
             /\ temp' = [temp EXCEPT !.faculty = <<>>, !.faculty_urls = {}]
             /\ UNCHANGED <<listed, reminders_table, fetch, mock_data, now, ticks, user_last_scrape, roadmaps,
                            user_profiles, last_ok, last_crawl, buttons>>

recommend(u, out) ==
    LET profile == ProfileOf(u)
    IN  IF profile # <<>> /\ profile[1].favorite_roadmaps # ""
        THEN LET favorite == profile[1].favorite_roadmaps
                 dept == profile[1].department
                 cleared == [temp EXCEPT !.faculty = <<>>, !.faculty_urls = {}]
                 t == RunSpider("faculty", cleared, out.responses)
                 shown == RecommendFromTemp(temp, favorite)
             IN  /\ CrawlStarted(u)
                 /\ IF out.raised
                    THEN /\ temp' = cleared
                         /\ reply' = Reply(u, "recommend", "", "live",
                                shown \o RecommendMentors(mock_data.faculty, dept, favorite),
                                TRUE, TRUE)
                    ELSE /\ temp' = t
                         /\ reply' = Reply(u, "recommend", "", "live",
                                shown \o Take(RecommendMentors(t.faculty, dept, favorite),
                                              CapRecommend),
                                TRUE, FALSE)
                 /\ UNCHANGED <<listed, reminders_table, fetch, mock_data, now, ticks, user_last_scrape, roadmaps,
                                user_profiles, last_ok, buttons>>
        ELSE /\ reply' = Reply(u, "recommend", "", "prompt", <<>>, FALSE, FALSE)
             /\ UNCHANGED <<listed, reminders_table, fetch, mock_data, now, ticks, user_last_scrape, temp, roadmaps,
                            user_profiles, last_ok, last_crawl, buttons>>

\* ---------------------------------------------------------------- roadmaps
Levels == <<"beginner", "intermediate", "advanced">>

\* RoadmapSpider.parse: the table after the three INSERT OR REPLACE.  The
\* table roadmaps is created without PRIMARY KEY or UNIQUE constraint
\* (init_db), so no insert conflicts with a row and each one adds a row.
RoadmapSpider_parse(table, response, t) ==
    LET parts == Split(response.url, "/")
        roadmap_type == parts[Len(parts)]
        Row(level) ==
            [title |-> IF response.items # <<>> THEN response.items[1].title
                       ELSE Capitalize(level) \o " " \o Capitalize(roadmap_type)
                            \o " Roadmap",
             level |-> level, roadmap_type |-> roadmap_type,
             last_updated |-> t]
    IN  table \o [i \in 1..Len(Levels) |-> Row(Levels[i])]

RECURSIVE RunRoadmapSpider(_, _, _)
RunRoadmapSpider(table, responses, t) ==
    IF responses = <<>> THEN table
    ELSE RunRoadmapSpider(RoadmapSpider_parse(table, Head(responses), t),
                          Tail(responses), t)

\* SELECT title, ... FROM roadmaps WHERE roadmap_type = ? [AND level = ?],
\* fetchall(): the rows in rowid order; level "" is None
SelectRoadmaps(table, roadmap_type, level) ==
    SelectSeq(table, LAMBDA r :
        r.roadmap_type = roadmap_type /\ (level = "" \/ r.level = level))

\* line 620, for a non-empty result of the first query:
\* c.execute("SELECT last_updated ... LIMIT 1").fetchone() takes the only row
\* of that result, so the c.fetchone() that follows returns None and
\* None[0] raises TypeError.  With no row of the type the first fetchone()
\* is None and the condition is False.
StaleCheck(table, roadmap_type, t) ==
    IF SelectRoadmaps(table, roadmap_type, "") # <<>> THEN "TypeError"
    ELSE "False"

roadmap(u, args, out) ==
    IF Len(args) = 0
    THEN /\ reply' = Reply(u, "roadmap", "", "usage", <<>>, FALSE, FALSE)
         /\ UNCHANGED <<listed, reminders_table, fetch, mock_data, now, ticks, user_last_scrape, temp, roadmaps,
                        user_profiles, last_ok, last_crawl, buttons>>
    ELSE
    LET roadmap_type == Lower(args[1])
        level == IF Len(args) > 1
                    /\ \E i \in 1..Len(Levels) : Levels[i] = Lower(args[2])
                 THEN Lower(args[2]) ELSE ""
        g == can_scrape(user_last_scrape, now, u)
        found == SelectRoadmaps(roadmaps, roadmap_type, level)
        table == IF out.raised THEN roadmaps
                 ELSE RunRoadmapSpider(roadmaps, out.responses, now)
        refreshed == SelectRoadmaps(table, roadmap_type, level)
        R(kind, recs, crawl, raised) ==
            [Reply(u, "roadmap", roadmap_type, kind, recs, crawl, raised)
                EXCEPT !.level = level,
                       !.stale = IF g.ok /\ found # <<>>
                                 THEN StaleCheck(roadmaps, roadmap_type, now)
                                 ELSE ""]
    IN  /\ Gate(u, g)
        /\ IF ~g.ok
           THEN /\ reply' = R("wait", <<>>, FALSE, FALSE)
                /\ UNCHANGED <<roadmaps, last_crawl>>
           ELSE IF found = <<>>
           THEN /\ CrawlStarted(u)
                /\ roadmaps' = table
                /\ reply' = IF out.raised THEN R("mock", <<mock_data.roadmap>>, TRUE, TRUE)
                            ELSE IF refreshed # <<>> THEN R("live", refreshed, TRUE, FALSE)
                            ELSE R("mock", <<mock_data.roadmap>>, TRUE, FALSE)
           ELSE IF StaleCheck(roadmaps, roadmap_type, now) = "TypeError"
           THEN /\ reply' = R("error", <<>>, FALSE, FALSE)
                /\ UNCHANGED <<roadmaps, last_crawl>>
           ELSE /\ reply' = R("live", found, FALSE, FALSE)
                /\ UNCHANGED <<roadmaps, last_crawl>>
        /\ buttons' = IF reply'.kind = "live"
                       THEN buttons \cup {"roadmap_" \o reply'.key \o "_" \o Levels[i] :
                                         i \in 1..Len(Levels)}
                       ELSE buttons
        /\ UNCHANGED <<listed, reminders_table, fetch, mock_data, now, ticks, temp, user_profiles>>

\* ------------------------------------------------------- buttons, profile
button_callback(u, data) ==
    LET parts == Split(data, "_")
        name == Replace(Replace(data, "contact_", ""), "_", " ")
        live == SelectSeq(temp.faculty, LAMBDA f : f.name = name)
        mock == SelectSeq(mock_data.faculty, LAMBDA f : f.name = name)
        B(key, kind, recs) == Reply(u, "button", key, kind, recs, FALSE, FALSE)
    IN  /\ reply' =
              IF StartsWith(data, "roadmap_")
              THEN IF Len(parts) # 3 THEN B(data, "error", <<>>)
                   ELSE LET rows == SelectRoadmaps(roadmaps, parts[2], parts[3])
                        IN  IF rows # <<>>
                            THEN [B(parts[2], "live", <<rows[1]>>) EXCEPT !.level = parts[3]]
                            ELSE [B(parts[2], "notfound", <<>>) EXCEPT !.level = parts[3]]
              ELSE IF StartsWith(data, "contact_")
              THEN IF live # <<>> THEN B(name, "live", <<live[1]>>)
                   ELSE IF mock # <<>> THEN B(name, "mock", <<mock[1]>>)
                   ELSE B(name, "notfound", <<>>)
              ELSE IF data = "view_profile"
              THEN IF ProfileOf(u) # <<>> THEN B(data, "live", ProfileOf(u))
                   ELSE B(data, "prompt", <<>>)
              ELSE IF data \in {"set_profile", "mark_attendance",
                                "add_reminder_calendar", "add_reminder_job", "help"}
              THEN B(data, "info", <<>>)
              ELSE reply
        /\ UNCHANGED <<listed, reminders_table, fetch, mock_data, now, ticks, user_last_scrape, temp, roadmaps,
                       user_profiles, last_ok, last_crawl, buttons>>

Digits == "0123456789"

\* whether int(s) returns: an optional sign, then digits
IsIntText(s) ==
    LET body == IF Len(s) > 0 /\ SubSeq(s, 1, 1) \in {"+", "-"}
                THEN SubSeq(s, 2, Len(s)) ELSE s
    IN  /\ Len(body) > 0
        /\ \A i \in 1..Len(body) : Contains(SubSeq(body, i, i), Digits)

RECURSIVE DigitsValue(_)
DigitsValue(s) ==
    IF Len(s) = 0 THEN 0
    ELSE 10 * DigitsValue(SubSeq(s, 1, Len(s) - 1))
         + (CHOOSE d \in 0..9 : SubSeq(Digits, d + 1, d + 1) = SubSeq(s, Len(s), Len(s)))

\* int(s) for an s with IsIntText(s)
IntOf(s) ==
    IF SubSeq(s, 1, 1) = "-" THEN 0 - DigitsValue(SubSeq(s, 2, Len(s)))
    ELSE IF SubSeq(s, 1, 1) = "+" THEN DigitsValue(SubSeq(s, 2, Len(s)))
    ELSE DigitsValue(s)

\* INSERT INTO user_profiles without OR REPLACE on a table without a key:
\* the row is added after the rows there are
InsertOrReplace_Append(table, row) == Append(table, row)

\* INSERT OR REPLACE INTO user_profiles: user_id is the INTEGER PRIMARY KEY,
\* so the row of the same user_id is deleted and the table is kept in the
\* order of user_id
InsertOrReplace(table, row) ==
    SelectSeq(table, LAMBDA r : r.user_id < row.user_id)
    \o <<row>>
    \o SelectSeq(table, LAMBDA r : r.user_id > row.user_id)

\* UserProfile(department=args[1], year=int(args[2]),
\*             favorite_roadmaps=args[3])
UserProfile(args) ==
    [department |-> args[2], favorite_roadmaps |-> args[4],
     year |-> IntOf(args[3])]

\* profile deleting the user's row before the year is parsed
profile_DeleteFirst(u, args) ==
    /\ IF Len(args) = 0 \/ Lower(args[1]) # "set" \/ Len(args) < 4
       THEN /\ reply' = Reply(u, "profile", "", "usage", <<>>, FALSE, FALSE)
            /\ UNCHANGED user_profiles
       ELSE IF ~IsIntText(args[3])
       THEN /\ reply' = Reply(u, "profile", "", "error", <<>>, FALSE, FALSE)
            /\ user_profiles' = SelectSeq(user_profiles, LAMBDA r : r.user_id # u)
       ELSE /\ user_profiles' = InsertOrReplace(user_profiles,
                   [department |-> UserProfile(args).department, user_id |-> u,
                    favorite_roadmaps |-> UserProfile(args).favorite_roadmaps,
                    year |-> UserProfile(args).year])
            /\ reply' = Reply(u, "profile", "", "ok", <<UserProfile(args)>>, FALSE, FALSE)
    /\ UNCHANGED <<listed, reminders_table, fetch, mock_data, now, ticks, user_last_scrape, temp, roadmaps, last_ok,
                   last_crawl, buttons>>

profile(u, args) ==
    /\ IF Len(args) = 0 \/ Lower(args[1]) # "set" \/ Len(args) < 4
       THEN /\ reply' = Reply(u, "profile", "", "usage", <<>>, FALSE, FALSE)
            /\ UNCHANGED user_profiles
       ELSE IF ~IsIntText(args[3])
       THEN /\ reply' = Reply(u, "profile", "", "error", <<>>, FALSE, FALSE)
            /\ UNCHANGED user_profiles
       ELSE /\ user_profiles' = InsertOrReplace(user_profiles,
                   [department |-> UserProfile(args).department, user_id |-> u,
                    favorite_roadmaps |-> UserProfile(args).favorite_roadmaps,
                    year |-> UserProfile(args).year])
            /\ reply' = Reply(u, "profile", "", "ok", <<UserProfile(args)>>, FALSE, FALSE)
    /\ UNCHANGED <<listed, reminders_table, fetch, mock_data, now, ticks, user_last_scrape, temp, roadmaps, last_ok,
                   last_crawl, buttons>>

scholarships(u) ==
    /\ reply' = Reply(u, "scholarships", "", "static", mock_data.scholarships,
                      FALSE, FALSE)
    /\ UNCHANGED <<listed, reminders_table, fetch, mock_data, now, ticks, user_last_scrape, temp, roadmaps,
                   user_profiles, last_ok, last_crawl, buttons>>

\* str.join: the words with sep between them
RECURSIVE Join(_, _)
Join(words, sep) ==
    IF Len(words) = 0 THEN ""
    ELSE IF Len(words) = 1 THEN words[1]
    ELSE words[1] \o sep \o Join(SubSeq(words, 2, Len(words)), sep)

AllDigits(s) ==
    Len(s) > 0 /\ \A i \in 1..Len(s) : Contains(SubSeq(s, i, i), Digits)

\* calendar.monthrange: the days of month m of year y
DaysIn(y, m) ==
    IF m \in {4, 6, 9, 11} THEN 30
    ELSE IF m # 2 THEN 31
    ELSE IF y % 4 = 0 /\ (y % 100 # 0 \/ y % 400 = 0) THEN 29
    ELSE 28

\* whether datetime.strptime(s, '%Y-%m-%d') returns: four digits of year, one
\* or two of month and of day, the whole text used, and a date that exists
IsDate(s) ==
    LET p == Split(s, "-")
    IN  /\ Len(p) = 3
        /\ Len(p[1]) = 4 /\ AllDigits(p[1]) /\ DigitsValue(p[1]) >= 1
        /\ Len(p[2]) \in 1..2 /\ AllDigits(p[2]) /\ DigitsValue(p[2]) \in 1..12
        /\ Len(p[3]) \in 1..2 /\ AllDigits(p[3])
        /\ DigitsValue(p[3]) \in 1..DaysIn(DigitsValue(p[1]), DigitsValue(p[2]))

\* the three values reminders takes from args of an add request:
\* task, deadline = " ".join(args[1:-1]), args[-1]; the recurrence is args[-1]
\* when args[-2] is 'daily' or 'weekly', and the deadline is then args[-2]
ReminderOf(args) ==
    LET n == Len(args)
        recurrence == IF n > 2 /\ args[n - 1] \in {"daily", "weekly"}
                      THEN args[n] ELSE "none"
    IN  [recurrence |-> recurrence,
         task |-> Join(SubSeq(args, 2, n - 1), " "),
         deadline |-> IF recurrence # "none" THEN args[n - 1] ELSE args[n]]

\* /reminders: kind is "usage", "invalid" (the 'Invalid date format' reply),
\* "ok" ('Reminder set', recs the row written) or "list" (the user's rows)
reminders(u, args) ==
    /\ IF Len(args) = 0
       THEN /\ reply' = Reply(u, "reminders", "", "usage", <<>>, FALSE, FALSE)
            /\ UNCHANGED reminders_table
       ELSE IF Lower(args[1]) = "add"
       THEN LET r == ReminderOf(args)
            IN  IF ~IsDate(r.deadline)
                THEN /\ reply' = Reply(u, "reminders", "", "invalid", <<>>, FALSE, FALSE)
                     /\ UNCHANGED reminders_table
                ELSE /\ reminders_table' = Append(reminders_table,
                            [user_id |-> u, recurrence |-> r.recurrence, task |-> r.task,
                             deadline |-> r.deadline])
                     /\ reply' = Reply(u, "reminders", "", "ok", <<r>>, FALSE, FALSE)
       ELSE /\ reply' = Reply(u, "reminders", "", "list",
                   SelectSeq(reminders_table, LAMBDA r : r.user_id = u), FALSE, FALSE)
            /\ UNCHANGED reminders_table
    /\ UNCHANGED <<listed, fetch, mock_data, now, ticks, user_last_scrape, temp,
                   roadmaps, user_profiles, last_ok, last_crawl, buttons>>

\* the clock advances by d seconds between two requests
Tick(d) ==
    /\ ticks < MaxTicks
    /\ now' = now + d
    /\ ticks' = ticks + 1
    /\ UNCHANGED <<user_last_scrape, temp, roadmaps, user_profiles, reply,
                   last_ok, last_crawl, buttons, mock_data, fetch, reminders_table,
                   listed>>

\* the process after start-up: empty buffers and stamp store (lines 59-67,
\* 357), the tables as init_db creates them
Start ==
    /\ now = Epoch0
    /\ ticks = 0
    /\ user_last_scrape = <<>>
    /\ temp = EmptyTemp
    /\ roadmaps = <<>>
    /\ user_profiles = <<>>
    /\ reply = NoReply
    /\ last_ok = [u \in Users |-> NoTime]
    /\ last_crawl = [u \in Users |-> NoTime]
    /\ buttons = {}
    /\ mock_data = MockData
    /\ reminders_table = <<>>
    /\ listed = {}

\* no call of scrape_dynamic_content is made by the handlers
Init == Start /\ fetch = NoFetch

\* ------------------------------------------------------------ environment
\* What the outside world supplies: the users' requests and, per crawl, what
\* the sites answer.  One item per page is enough to tell a filled buffer
\* from an empty one.
CalendarPage(u) ==
    <<[date |-> "2025-09-01", details |-> "Fall term", name |-> "Orientation",
       src |-> Src("calendar", "", u)]>>
TrendingPage(language, u) ==
    <<[repo |-> "octo/repo", description |-> "A project",
       language |-> IF language = "" THEN "Python" ELSE Capitalize(language),
       stars |-> "10", src |-> Src("trending", language, u)]>>
StackOverflowPage(tag, u) ==
    <<[title |-> "How to sort", link |-> "/questions/1", tags |-> <<tag>>,
       src |-> Src("stackoverflow", tag, u)]>>
ResourcesPage(u) ==
    <<[title |-> "Python Programming", link |-> "/learn/python",
       src |-> Src("resources", "", u)]>>
JobsPage(u) ==
    <<[title |-> "Python Intern", company |-> "Acme", location |-> "Dhaka",
       link |-> "/jobs/1", src |-> Src("jobs", "", u)]>>
NoticePage(u) ==
    <<[title |-> "Holiday", date |-> "2025-08-25", details |-> "Closed",
       src |-> Src("notices", "", u)]>>
FacultyPage(u) ==
    <<[name |-> "Dr. A B", designation |-> "Professor", email |-> "ab@uiu.ac.bd",
       phone |-> "N/A", expertise |-> "Python, Networks",
       src |-> Src("faculty", "", u)]>>

\* a crawl with one start URL: it raises, no response arrives, or the page
\* arrives with no item or with the items given
Outcomes(url, items) ==
    {Raised, Got(<<>>), Got(<<Response(url, <<>>)>>), Got(<<Response(url, items)>>)}

\* a crawl that yields no record
NoData == {Raised, Got(<<>>)}

ProfileArgs == {<<"set", "CSE", "2", "python">>}

\* ------------------------------------------- specification: rate limiting
\* Every command that calls can_scrape, /recommend and /profile, by two
\* users, with the clock advancing by 1 or 60 seconds between requests (so
\* that requests 0, 1, 2, 60, 61 and 120 seconds apart occur); the sites
\* yield no record.
RateDeltas == {1, Cooldown}

DoTick == \E d \in RateDeltas : Tick(d)
DoCalendar == \E u \in Users, out \in NoData : calendar(u, out)
DoResources == \E u \in Users, out \in NoData : resources(u, <<>>, out)
DoTrending == \E u \in Users, out \in NoData : trending(u, <<>>, out)
DoStackoverflow == \E u \in Users, out \in NoData : stackoverflow(u, <<>>, out)
DoJobs == \E u \in Users, out \in NoData : jobs(u, <<>>, out)
DoNotice == \E u \in Users, out \in NoData : notice(u, out)
DoMentor ==
    \E u \in Users, out \in NoData, args \in {<<>>, <<"find">>, <<"find", "CSE">>} :
        mentor(u, args, out)
DoRoadmap ==
    \E u \in Users, out \in NoData, args \in {<<>>, <<"python">>} :
        roadmap(u, args, out)
DoRecommend == \E u \in Users, out \in NoData : recommend(u, out)
DoProfile == \E u \in Users, args \in ProfileArgs : profile(u, args)

Next ==
    \/ DoTick
    \/ DoCalendar
    \/ DoResources
    \/ DoTrending
    \/ DoStackoverflow
    \/ DoJobs
    \/ DoNotice
    \/ DoMentor
    \/ DoRoadmap
    \/ DoRecommend
    \/ DoProfile

Spec == Init /\ [][Next]_vars

GatedCmds == {"calendar", "resources", "trending", "stackoverflow", "jobs",
              "roadmap", "mentor", "notice"}

\* this step is a request of u that reached can_scrape
GateCall(u) ==
    /\ now' = now
    /\ reply'.user = u
    /\ reply'.cmd \in GatedCmds
    /\ reply'.kind # "usage"

\* can_scrape returned True in this step
Granted == reply'.kind # "wait"

\* this step is a request of u that started a crawl
CrawlStart(u) == now' = now /\ reply'.user = u /\ reply'.crawl

\* C1: any two crawls started for the same user are at least the cooldown
\* apart, whichever commands (/recommend included) started them.
C1_CrawlsCooldownApart ==
    [][\A u \in Users :
          CrawlStart(u) =>
              last_crawl[u] = NoTime \/ now - last_crawl[u] >= Cooldown]_vars

\* -------------------------------------------------- specification: the gate
\* The eight commands that call can_scrape, by both users, 0, 1, 2, 60, 61
\* and 120 seconds apart.
NextGate ==
    \/ DoTick
    \/ DoCalendar
    \/ DoResources
    \/ DoTrending
    \/ DoStackoverflow
    \/ DoJobs
    \/ DoNotice
    \/ DoMentor
    \/ DoRoadmap

SpecGate == Init /\ [][NextGate]_vars

\* u has a recorded stamp less than 60 s old
FreshStamp(u) ==
    u \in DOMAIN user_last_scrape /\ now - user_last_scrape[u] < Cooldown

\* C2: can_scrape(u) returns True and stamps u with the current time iff u
\* has no stamp less than 60 s old; otherwise it returns False and leaves
\* user_last_scrape as it was; no other user's stamp changes either way.
C2_CanScrapeContract ==
    [][\A u \in Users :
          GateCall(u) =>
              /\ Granted <=> ~FreshStamp(u)
              /\ Granted =>
                    /\ DOMAIN user_last_scrape' = DOMAIN user_last_scrape \cup {u}
                    /\ user_last_scrape'[u] = now
                    /\ \A v \in DOMAIN user_last_scrape \ {u} :
                          user_last_scrape'[v] = user_last_scrape[v]
              /\ ~Granted => user_last_scrape' = user_last_scrape]_vars

\* a call of a user was rejected, its stamp is still the older one, and the
\* other user holds a stamp too
C2_Witness ==
    /\ reply.kind = "wait"
    /\ reply.user \in DOMAIN user_last_scrape
    /\ user_last_scrape[reply.user] < now
    /\ \E v \in DOMAIN user_last_scrape : v # reply.user

\* C3: of the requests of one user inside one cooldown window exactly one is
\* granted: a call is granted iff the user's last grant, if any, is at least
\* the cooldown old (so also 61 s after a grant).
C3_OneGrantPerWindow ==
    [][\A u \in Users :
          GateCall(u) =>
              (Granted <=> (last_ok[u] = NoTime \/ now - last_ok[u] >= Cooldown))]_vars

\* a second request of a user, in the very instant of its granted one, was
\* rejected
C3_Witness ==
    /\ reply.kind = "wait"
    /\ last_ok[reply.user] = now


\* ------------------------------------------- specification: roadmap cache
\* /roadmap and the level buttons it offers, by two users.  The clock
\* advances by the cooldown or by a day and a second, so that a cached entry
\* is met both younger and older than 24 h.  The site answers any path it is
\* asked for, or not at all; a request for "x/python" is stored by
\* RoadmapSpider.parse under the last path segment "python".
RoadmapDeltas == {Cooldown, TTL + 1}

RoadmapPage == <<[title |-> "Python Developer"]>>

\* the crawl raises, ends without a response, or the site answers
RoadmapOutcomes(roadmap_type) ==
    {Raised, Got(<<>>), Got(<<Response(RoadmapUrl(roadmap_type), RoadmapPage)>>)}

RoadmapArgs ==
    {<<>>, <<"Python", "Beginner">>, <<"x/python">>}

DoTickRoadmap == \E d \in RoadmapDeltas : Tick(d)
DoRoadmapCache ==
    \E u \in Users, args \in RoadmapArgs :
        \E out \in RoadmapOutcomes(IF args = <<>> THEN "" ELSE Lower(args[1])) :
            /\ roadmap(u, args, out)
            /\ Len(roadmaps') <= MaxRows
DoButton == \E u \in Users, data \in buttons : button_callback(u, data)

NextRoadmap ==
    \/ DoTickRoadmap
    \/ DoRoadmapCache
    \/ DoButton

SpecRoadmap == Init /\ [][NextRoadmap]_vars

\* C4: the roadmaps table never holds two rows with the same
\* (roadmap_type, level): a refresh replaces the row of its key.
C4_OneEntryPerKey ==
    \A i, j \in 1..Len(roadmaps) :
        (/\ roadmaps[i].roadmap_type = roadmaps[j].roadmap_type
         /\ roadmaps[i].level = roadmaps[j].level) => i = j

\* the record of the most recent write for a key: rows are appended in the
\* order they are written
LatestWrite(table, roadmap_type, level) ==
    LET rows == SelectRoadmaps(table, roadmap_type, level)
    IN  rows[Len(rows)]

\* C5: a cache read (the /roadmap reply built from the table, or a level
\* button) shows for each key exactly the record of the latest write for
\* that key, never a record of an earlier write.
C5_ReadReturnsLatestWrite ==
    (reply.cmd \in {"roadmap", "button"} /\ reply.kind = "live") =>
        \A i \in 1..Len(reply.recs) :
            reply.recs[i] = LatestWrite(roadmaps, reply.recs[i].roadmap_type,
                                        reply.recs[i].level)

\* a /roadmap request that passed the rate-limit gate
RoadmapGranted ==
    /\ now' = now
    /\ reply'.cmd = "roadmap"
    /\ reply'.kind \notin {"usage", "wait"}

\* C6: once the gate has passed, /roadmap starts a live refresh exactly when
\* its lookup finds no row or the entry found is older than 24 h.
C6_RefreshIffMissingOrStale ==
    [][RoadmapGranted =>
        LET found == SelectRoadmaps(roadmaps, reply'.key, reply'.level)
            entry == SelectRoadmaps(roadmaps, reply'.key, "")
        IN  reply'.crawl <=>
                (found = <<>> \/ now - entry[1].last_updated > TTL)]_vars

\* ---------------------------------------- specification: shared buffers
\* /trending <language>, /profile and /recommend by two users against sites
\* that answer, answer with an empty page, do not answer, or make the crawl
\* raise.  The items of a page carry the request they were fetched for.
DataDeltas == {Cooldown}

TrendingArgs == {<<"python">>, <<"Java">>}

DoTickData == \E d \in DataDeltas : Tick(d)
DoTrendingData ==
    \E u \in Users, args \in TrendingArgs :
        \E out \in Outcomes(TrendingUrl(Lower(args[1])),
                            TrendingPage(Lower(args[1]), u)) :
            trending(u, args, out)
DoRecommendData ==
    \E u \in Users : \E out \in Outcomes(FacultyUrls[1], FacultyPage(u)) :
        recommend(u, out)

NextBuffers ==
    \/ DoTickData
    \/ DoTrendingData
    \/ DoProfile
    \/ DoRecommendData

SpecBuffers == Init /\ [][NextBuffers]_vars

\* ---------------------------------------------- specification: fallback
\* /calendar and /mentor find <query> by two users against the same sites.
MentorArgs == {<<"find", "Python">>, <<"find", "xyz">>}

DoCalendarData ==
    \E u \in Users : \E out \in Outcomes(CalendarUrl, CalendarPage(u)) :
        calendar(u, out)
DoMentorData ==
    \E u \in Users, args \in MentorArgs :
        \E out \in Outcomes(FacultyUrls[1], FacultyPage(u)) :
            mentor(u, args, out)

NextFallback ==
    \/ DoTickData
    \/ DoCalendarData
    \/ DoMentorData

SpecFallback == Init /\ [][NextFallback]_vars

\* commands whose fetch is for a query key
KeyedCmds == {"trending", "stackoverflow"}

\* C8: every fetched record of a reply was extracted by a fetch of the
\* replying request's user and, for a keyed command, of its source kind and
\* query key; nothing another request left in a buffer is shown.
C8_RecordsOfOwnFetch ==
    \A i \in 1..Len(reply.recs) :
        LET r == reply.recs[i]
        IN  "src" \in DOMAIN r =>
                /\ r.src.user = reply.user
                /\ reply.cmd \in KeyedCmds =>
                       (r.src.kind = reply.cmd /\ r.src.key = reply.key)

\* C9: a request that started a crawl ends with data or fallback data,
\* whatever became of the crawl; it never ends with the generic error reply.
C9_FetchFailureFallsBack ==
    reply.crawl => reply.kind \in {"live", "mock"}

\* C10: a "Using mock data" reply lists at least one record.
C10_MockReplyNotEmpty ==
    reply.kind = "mock" => Len(reply.recs) >= 1

\* ------------------------------------------------ specification: filters
\* /resources [keyword], /jobs [keyword] and /profile by two users.  The
\* course page lists six courses, one more than a reply shows; the job page
\* lists two jobs in Bangladesh.
Course(title, u) ==
    [title |-> title, link |-> "/x", src |-> Src("resources", "", u)]
ResourcesCatalog(u) ==
    <<Course("Python", u), Course("DSA", u), Course("Linux", u),
      Course("Git", u), Course("Py Web", u), Course("Nets", u)>>
JobsBoard(u) ==
    <<[title |-> "Python Intern", company |-> "Acme",
       location |-> "Bangladesh", link |-> "/1",
       src |-> Src("jobs", "", u)],
      [title |-> "Clerk", company |-> "Beta",
       location |-> "Bangladesh", link |-> "/2",
       src |-> Src("jobs", "", u)]>>

ResourcesArgs == {<<>>, <<"XYZ">>}
JobsArgs == {<<>>, <<"xyz">>}
InterestArgs == {<<"set", "CSE", "2", "python,dsa">>}

DoResourcesFilter ==
    \E u \in Users, args \in ResourcesArgs :
        \E out \in Outcomes(ResourcesUrls[1], ResourcesCatalog(u)) :
            resources(u, args, out)
DoJobsFilter ==
    \E u \in Users, args \in JobsArgs :
        \E out \in Outcomes(JobsUrls[2], JobsBoard(u)) :
            jobs(u, args, out)
DoProfileInterests == \E u \in Users, args \in InterestArgs : profile(u, args)

NextFilter ==
    \/ DoTickData
    \/ DoResourcesFilter
    \/ DoJobsFilter
    \/ DoProfileInterests

SpecFilter == Init /\ [][NextFilter]_vars

\* C11: a reply with the live-data header of a filtering command lists at
\* least one record: when the filter leaves none the fallback set is used.
C11_FilteredLiveReplyNotEmpty ==
    (reply.kind = "live" /\ reply.cmd \in {"resources", "jobs", "mentor"})
        => Len(reply.recs) >= 1

\* C17: when a keyword is given to /resources or /jobs, a record is shown
\* only if the keyword occurs in it: the keyword alone decides retention.
C17_KeywordAloneDecides ==
    (reply.kind = "live" /\ reply.key # "") =>
        /\ reply.cmd = "resources" =>
               \A i \in 1..Len(reply.recs) :
                   MatchesAny(<<reply.key>>, <<reply.recs[i].title>>)
        /\ reply.cmd = "jobs" =>
               \A i \in 1..Len(reply.recs) :
                   MatchesAny(<<reply.key>>,
                              <<reply.recs[i].title, reply.recs[i].company,
                                reply.recs[i].location>>)

\* the request answered last had no filter term: no keyword, and no stored
\* interests of its user
NoFilterTerms ==
    /\ reply.key = ""
    /\ \/ ProfileOf(reply.user) = <<>>
       \/ ProfileOf(reply.user)[1].favorite_roadmaps = ""

\* C20: without filter terms /resources and /jobs show the records of the
\* buffer in their order, cut to the first five.
C20_NoTermsKeepsOrderAndCap ==
    (reply.kind = "live" /\ NoFilterTerms) =>
        /\ reply.cmd = "resources" => reply.recs = Take(temp.resources, CapItems)
        /\ reply.cmd = "jobs" => reply.recs = Take(temp.jobs, CapItems)

C20_Witness ==
    /\ reply.cmd = "resources" /\ reply.kind = "live" /\ NoFilterTerms
    /\ Len(reply.recs) = CapItems
    /\ reply.recs[1].title = "Python" /\ reply.recs[CapItems].title = "Py Web"

\* the buffer a command's crawl extracts into, as the crawl of the request
\* answered last left it
LiveBuffer(cmd) ==
    CASE cmd = "calendar" -> temp.calendar
      [] cmd = "resources" -> temp.resources
      [] cmd = "trending" -> temp.trending
      [] cmd = "stackoverflow" -> temp.stackoverflow
      [] cmd = "jobs" -> temp.jobs
      [] cmd = "notice" -> temp.notices
      [] cmd = "mentor" -> temp.faculty

\* C12: a command with a live-fetch path answers with mock data only if the
\* live extraction of that request yielded no record.
C12_MockOnlyWhenNothingExtracted ==
    (/\ reply.kind = "mock"
     /\ reply.cmd \in {"calendar", "resources", "trending", "stackoverflow",
                       "jobs", "notice", "mentor"})
        => LiveBuffer(reply.cmd) = <<>>

\* C13: a /recommend of a user within 5 seconds of that user's previous
\* /recommend starts no crawl and still answers with data.
C13_SecondRecommendSkipsFetch ==
    [][\A u \in Users :
         (/\ reply.cmd = "recommend" /\ reply.user = u /\ reply.crawl
          /\ now' = now /\ now - last_crawl[u] <= 5
          /\ reply'.cmd = "recommend" /\ reply'.user = u)
            => (~reply'.crawl /\ reply'.kind \in {"live", "mock"})]_vars

\* C14: a request to a gated command by a user whose stamp is younger than
\* the cooldown ends in the 'please wait' reply and changes nothing else: no
\* crawl, no buffer, no table, no stamp.
C14_RejectionChangesNothing ==
    [][\A u \in Users :
         (GateCall(u) /\ FreshStamp(u)) =>
            /\ reply'.kind = "wait" /\ ~reply'.crawl
            /\ UNCHANGED <<temp, roadmaps, user_profiles, user_last_scrape,
                           last_crawl>>]_vars

C14_Witness ==
    /\ reply.kind = "wait" /\ reply.cmd = "mentor"
    /\ temp.faculty # <<>> /\ temp.calendar # <<>>
    /\ user_last_scrape[reply.user] = now

\* --------------------------------------------- specification: recommend
\* /resources, /trending python and /jobs fill the buffers /recommend reads;
\* /profile stores interests and a department; the faculty crawl of
\* /recommend answers, answers empty, gets no response or raises.  All
\* requests arrive within the same second: each user is granted one gated
\* command, so a run fills up to two of the three buffers, in any order.
Answered(url, items) == {Got(<<Response(url, items)>>)}

RecommendProfiles == InterestArgs \cup {<<"set", "E", "1", "go">>}

DoResourcesFill ==
    \E u \in Users : \E out \in Answered(ResourcesUrls[1], ResourcesCatalog(u)) :
        resources(u, <<>>, out)
DoTrendingFill ==
    \E u \in Users : \E out \in Answered(TrendingUrl("python"), TrendingPage("python", u)) :
        trending(u, <<"python">>, out)
DoJobsFill ==
    \E u \in Users : \E out \in Answered(JobsUrls[2], JobsBoard(u)) :
        jobs(u, <<>>, out)
DoProfileRecommend ==
    \E u \in Users, args \in RecommendProfiles : profile(u, args)

NextRecommend ==
    \/ DoResourcesFill
    \/ DoTrendingFill
    \/ DoJobsFill
    \/ DoProfileRecommend
    \/ DoRecommendData

SpecRecommend == Init /\ [][NextRecommend]_vars

\* C15: /recommend of a user without stored profile ends in the 'set your
\* profile' reply; it starts no crawl and leaves buffers and tables alone.
C15_NoProfilePrompts ==
    [][\A u \in Users :
         (/\ now' = now /\ reply'.cmd = "recommend" /\ reply'.user = u
          /\ ProfileOf(u) = <<>>) =>
            /\ reply'.kind = "prompt" /\ ~reply'.crawl
            /\ UNCHANGED <<temp, roadmaps, user_profiles, user_last_scrape,
                           last_crawl>>]_vars

C15_Witness ==
    /\ reply.cmd = "recommend" /\ reply.kind = "prompt"
    /\ ProfileOf(reply.user) = <<>>
    /\ temp.faculty # <<>> /\ temp.resources # <<>>

\* the section of a /recommend reply a record belongs to: 1 resources,
\* 2 repos, 3 jobs, 4 mentors
KindRank(r) ==
    IF "platform" \in DOMAIN r THEN 1
    ELSE IF "repo" \in DOMAIN r THEN 2
    ELSE IF "company" \in DOMAIN r THEN 3
    ELSE 4

\* C16: a /recommend reply lists its records by kind in the order
\* resources, repos, jobs, mentors, at most three of each kind.
C16_OrderedAndCapped ==
    (reply.cmd = "recommend" /\ reply.kind = "live") =>
        /\ \A i, j \in 1..Len(reply.recs) :
               i < j => KindRank(reply.recs[i]) <= KindRank(reply.recs[j])
        /\ \A k \in 1..4 :
               Cardinality({i \in 1..Len(reply.recs) :
                               KindRank(reply.recs[i]) = k}) <= CapRecommend

\* C19: with interests "python,dsa" and an empty resources buffer the reply
\* of /recommend lists the fallback record titled "Learn Python".
C19_FallbackLearnPython ==
    (/\ reply.cmd = "recommend" /\ reply.kind = "live"
     /\ ProfileOf(reply.user) # <<>>
     /\ ProfileOf(reply.user)[1].favorite_roadmaps = "python,dsa"
     /\ temp.resources = <<>>)
        => \E i \in 1..Len(reply.recs) :
               KindRank(reply.recs[i]) = 1 /\ reply.recs[i].title = "Learn Python"

\* the records of one section of a /recommend reply
Section(recs, k) == SelectSeq(recs, LAMBDA r : KindRank(r) = k)

\* C18: in /recommend each of the sections resources, repos and jobs is
\* what its own buffer gives, whatever the other buffers hold and whatever
\* becomes of the faculty crawl, and the reply is never the generic error.
C18_KindsIndependent ==
    [][\A u \in Users :
         (/\ now' = now /\ reply'.cmd = "recommend" /\ reply'.user = u
          /\ ProfileOf(u) # <<>>) =>
            LET favorite == ProfileOf(u)[1].favorite_roadmaps
            IN  /\ reply'.kind = "live"
                /\ Section(reply'.recs, 1) = RecommendFromTemp(
                       [EmptyTemp EXCEPT !.resources = temp.resources], favorite)
                /\ Section(reply'.recs, 2) = RecommendFromTemp(
                       [EmptyTemp EXCEPT !.trending = temp.trending], favorite)
                /\ Section(reply'.recs, 3) = RecommendFromTemp(
                       [EmptyTemp EXCEPT !.jobs = temp.jobs], favorite)]_vars

C18_Witness ==
    /\ reply.cmd = "recommend" /\ reply.raised
    /\ temp.resources = <<>> /\ temp.trending # <<>> /\ temp.jobs # <<>>
    /\ Section(reply.recs, 2) # <<>> /\ Section(reply.recs, 3) # <<>>

\* ------------------------------------------------ specification: profiles
\* /profile by two users, with a year that is positive, zero, negative or
\* not a number, and with too few arguments; the "View Profile" button of
\* the /start keyboard reads the stored profile back.
ProfileSetArgs ==
    {<<"set", "CSE", "2", "py">>, <<"set", "EEE", "0", "go">>,
     <<"set", "CSE", "-1", "py">>, <<"Set", "EEE", "3", "go,py">>,
     <<"set", "BBA", "abc", "c">>, <<"set", "CSE">>}

DoProfileSet == \E u \in Users, args \in ProfileSetArgs : profile(u, args)
DoViewProfile == \E u \in Users : button_callback(u, "view_profile")

NextProfile ==
    \/ DoProfileSet
    \/ DoViewProfile

SpecProfile == Init /\ [][NextProfile]_vars

\* C24: every stored profile has a positive year and a non-empty department
\* and interests: /profile set with a year of 0 or below writes nothing.
C24_StoredProfilesValid ==
    \A i \in 1..Len(user_profiles) :
        /\ user_profiles[i].year > 0
        /\ user_profiles[i].department # ""
        /\ user_profiles[i].favorite_roadmaps # ""

\* C25: a /profile set that fails on its year leaves the profile store as
\* it was, so a later read returns the prior profile or none.
C25_BadYearChangesNothing ==
    [][(reply'.cmd = "profile" /\ reply'.kind = "error")
          => user_profiles' = user_profiles]_vars

\* a set with year "abc" was rejected and the user's earlier profile is
\* still there
C25_Witness ==
    /\ reply.cmd = "profile" /\ reply.kind = "error"
    /\ ProfileOf(reply.user) # <<>>

\* the step is a successful /profile set
ProfileSetOk == reply'.cmd = "profile" /\ reply'.kind = "ok"

\* C26: the store never holds two rows of one user; a successful set makes
\* the setter's profile the fields just set and leaves every other user's
\* profile alone; nothing else changes a profile; a read shows the stored
\* profile of the reader, or none.
C26_OneRowLastWriteWins ==
    [][/\ \A i, j \in 1..Len(user_profiles') :
              user_profiles'[i].user_id = user_profiles'[j].user_id => i = j
       /\ ProfileSetOk => ProfileIn(user_profiles', reply'.user) = reply'.recs
       /\ \A v \in Users :
              (~ProfileSetOk \/ v # reply'.user) =>
                  ProfileIn(user_profiles', v) = ProfileOf(v)
       /\ (reply'.cmd = "button" /\ reply'.key = "view_profile") =>
              /\ reply'.recs = ProfileOf(reply'.user)
              /\ reply'.kind = IF ProfileOf(reply'.user) = <<>> THEN "prompt" ELSE "live"
      ]_vars

\* both users have a profile, and the one who set last reads their own
C26_Witness ==
    /\ Len(user_profiles) = 2
    /\ reply.cmd = "button" /\ reply.key = "view_profile" /\ reply.kind = "live"
    /\ reply.recs[1].department = "EEE"
    /\ ProfileOf(3 - reply.user)[1].department = "CSE"

\* ------------------------------------------- specification: filter terms
\* /resources, /jobs and /mentor by two users against sites that answer, and
\* /profile with interests in lower and in upper case.  The clock stands
\* still, so each user gets one of the three rate-limited commands.
DoProfileCase ==
    \E u \in Users :
        \E args \in {<<"set", "CSE", "2", "py,dsa">>, <<"set", "CSE", "2", "PY">>} :
            profile(u, args)
DoResourcesTerms ==
    \E u \in Users, args \in {<<>>, <<"PY">>} :
        \E out \in Answered(ResourcesUrls[1], ResourcesCatalog(u)) :
            resources(u, args, out)
DoJobsTerms ==
    \E u \in Users, args \in {<<>>, <<"Intern">>} :
        \E out \in Answered(JobsUrls[2], JobsBoard(u)) :
            jobs(u, args, out)
DoMentorTerms ==
    \E u \in Users, args \in MentorArgs :
        \E out \in Answered(FacultyUrls[1], FacultyPage(u)) :
            mentor(u, args, out)

NextTerms ==
    \/ DoProfileCase
    \/ DoResourcesTerms
    \/ DoJobsTerms
    \/ DoMentorTerms

SpecTerms == Init /\ [][NextTerms]_vars

\* C21: filtering the records a filtering command shows once more, with the
\* same terms, gives the same records in the same order.
C21_FilterIdempotent ==
    [][(reply'.kind = "live" /\ user_profiles' = user_profiles) =>
          /\ reply'.cmd = "resources" =>
                 ResourcesFilter(reply'.recs, reply'.key, ProfileOf(reply'.user))
                     = reply'.recs
          /\ reply'.cmd = "jobs" =>
                 JobsFilter(reply'.recs, reply'.key, ProfileOf(reply'.user))
                     = reply'.recs
          /\ reply'.cmd = "mentor" =>
                 FacultyFilter(reply'.recs, reply'.key) = reply'.recs
      ]_vars

\* /resources of a user with interests "py,dsa": three of the five courses
\* extracted pass the filter
C21_Witness ==
    /\ reply.cmd = "resources" /\ reply.kind = "live" /\ reply.key = ""
    /\ Len(temp.resources) = CapItems
    /\ Len(reply.recs) = 3

\* C22: /resources without a keyword shows every extracted course whose
\* title contains, letter case aside, one of the interests its user stored.
C22_InterestsMatchAnyCase ==
    [][(/\ reply'.cmd = "resources" /\ reply'.kind = "live" /\ reply'.key = ""
        /\ user_profiles' = user_profiles
        /\ ProfileOf(reply'.user) # <<>>) =>
          LET terms == Split(ProfileOf(reply'.user)[1].favorite_roadmaps, ",")
          IN  \A i \in 1..Len(temp'.resources) :
                  (\E k \in 1..Len(terms) :
                       Contains(Lower(terms[k]), Lower(temp'.resources[i].title)))
                  => \E j \in 1..Len(reply'.recs) :
                         reply'.recs[j] = temp'.resources[i]
      ]_vars

\* -------------------------------------------------- specification: caps
\* /calendar, /notice, /mentor, /scholarships and the buttons they offer, by
\* two users against pages that list more entries than a reply shows: six events, four notices, six faculty
\* members on the first faculty page.  The clock stands still.
Event(name, u) ==
    [date |-> "2025-09-01", details |-> "x", name |-> name,
     src |-> Src("calendar", "", u)]
LongCalendar(u) ==
    <<Event("E1", u), Event("E2", u), Event("E3", u), Event("E4", u),
      Event("E5", u), Event("E6", u)>>
Notice(title, u) ==
    [title |-> title, date |-> "2025-08-25", details |-> "x",
     src |-> Src("notices", "", u)]
LongNotices(u) ==
    <<Notice("N1", u), Notice("N2", u), Notice("N3", u), Notice("N4", u)>>
Lecturer(name, u) ==
    [name |-> name, designation |-> "Lecturer", email |-> "N/A",
     phone |-> "N/A", expertise |-> "AI", src |-> Src("faculty", "", u)]
LongFaculty(u) ==
    <<Lecturer("L1", u), Lecturer("L2", u), Lecturer("L3", u),
      Lecturer("L4", u), Lecturer("L5", u), Lecturer("L6", u)>>

DoCalendarCaps ==
    \E u \in Users : \E out \in Outcomes(CalendarUrl, LongCalendar(u)) :
        calendar(u, out)
DoNoticeCaps ==
    \E u \in Users : \E out \in Outcomes(NoticeUrl, LongNotices(u)) :
        notice(u, out)
DoMentorCaps ==
    \E u \in Users, args \in {<<"find", "ai">>} :
        \E out \in Outcomes(FacultyUrls[1], LongFaculty(u)) :
            mentor(u, args, out)

DoScholarships == \E u \in Users : scholarships(u)

NextCaps ==
    \/ DoScholarships
    \/ DoCalendarCaps
    \/ DoNoticeCaps
    \/ DoMentorCaps
    \/ DoButton

SpecCaps == Init /\ [][NextCaps]_vars

\* C23: no buffer of extracted records is ever longer than its cap: five
\* records, three for notices; the faculty buffer too holds at most five.
C23_BuffersCapped ==
    /\ Len(temp.calendar) <= CapItems
    /\ Len(temp.resources) <= CapItems
    /\ Len(temp.trending) <= CapItems
    /\ Len(temp.stackoverflow) <= CapItems
    /\ Len(temp.jobs) <= CapItems
    /\ Len(temp.notices) <= CapNotices
    /\ Len(temp.faculty) <= CapItems

\* C27: the fallback lists hold in every state what they held at start-up.
C27_MockSetsNeverChange == mock_data = MockData

\* /mentor has answered from MOCK_FACULTY, showing one of its four entries
C27_Witness ==
    /\ reply.cmd = "mentor" /\ reply.kind = "mock"
    /\ Len(reply.recs) = 1
    /\ Len(mock_data.faculty) = 4

\* ------------------------------------------------- specification: fetcher
\* One call of scrape_dynamic_content(url) with the default retries, for
\* each way the browser can behave at the two attempts: the page loads (one
\* of three contents) or one of the calls raises.
Attempts ==
    {[page |-> p, fails |-> ""] : p \in {"", "<a>", "<b>"}}
    \cup {[page |-> "", fails |-> f] : f \in {"install", "get", "quit"}}

InitFetch ==
    /\ Start
    /\ \E url \in {"https://www.uiu.ac.bd", "https://github.com/trending"},
          first \in Attempts, second \in Attempts :
           fetch = [NoFetch EXCEPT !.url = url, !.browser = <<first, second>>]

NextFetch == CallFetcher

SpecFetch == InitFetch /\ [][NextFetch]_vars

\* the first attempt at which the page loaded, 0 if none
FirstSuccess(browser) ==
    IF \E k \in 1..Len(browser) : browser[k].fails = ""
    THEN CHOOSE k \in 1..Len(browser) :
             /\ browser[k].fails = ""
             /\ \A j \in 1..(k - 1) : browser[j].fails # ""
    ELSE 0

\* C29: a call of scrape_dynamic_content always returns: None when no
\* attempt loaded the page, else the page of the first attempt that did.
C29_FetcherNeverRaises ==
    fetch.done =>
        /\ ~fetch.raised
        /\ fetch.value = IF FirstSuccess(fetch.browser) = 0 THEN None
                         ELSE Content(fetch.browser[FirstSuccess(fetch.browser)].page)

\* the download of the driver failed at the first attempt, the second
\* attempt loaded the page
C29_Witness ==
    /\ fetch.done
    /\ fetch.browser[1].fails = "install"
    /\ fetch.value = Content("<b>")

\* C30: a call of scrape_dynamic_content makes exactly one attempt.
C30_SingleAttempt == fetch.done => fetch.attempts = 1

\* =================================================== reminders (SpecReminders)
\* /reminders add <task> <date> [recurrence] as the help text documents it,
\* the words of a recurrence before the date, a date that does not exist, and
\* /reminders list
ReminderArgs ==
    {<<"add", "Meet", "Dr.", "Suman", "2025-09-01", "weekly">>,
     <<"add", "Quiz", "2025-09-01", "daily">>,
     <<"add", "Quiz", "2025-09-01">>,
     <<"add", "Lab", "report", "2025-9-1">>,
     <<"add", "Quiz", "daily", "2025-09-01">>,
     <<"add", "Quiz", "2025-02-30">>,
     <<"add", "Quiz", "tomorrow">>,
     <<"add", "2024-02-29">>,
     <<"list">>,
     <<>>}

DoReminders ==
    \E u \in Users, args \in ReminderArgs :
        Len(reminders_table) < MaxReminders /\ reminders(u, args)

NextReminders == DoReminders

SpecReminders == Init /\ [][NextReminders]_vars

\* the request read as the help text documents it: the last word is the
\* recurrence when it is 'daily' or 'weekly', the word before it (otherwise
\* the last word) is the date, the words between 'add' and the date are the
\* task
Documented(args) ==
    LET n == Len(args)
        rec == n > 2 /\ args[n] \in {"daily", "weekly"}
        d == IF rec THEN n - 1 ELSE n
    IN  [recurrence |-> IF rec THEN args[n] ELSE "none",
         task |-> Join(SubSeq(args, 2, d - 1), " "),
         deadline |-> args[d]]

\* C31: a /reminders add request stores one row (user, task, date,
\* recurrence) exactly when its date, read as the help text documents the
\* command, is a valid YYYY-MM-DD date: the row carries that date and the
\* recurrence word given ('none' when none is given); with an invalid date no
\* row is stored
C31_ReminderStoredAsDocumented ==
    [][\A u \in Users, args \in ReminderArgs :
          (Len(args) > 1 /\ args[1] = "add" /\ reminders(u, args)) =>
              LET want == Documented(args)
              IN  IF IsDate(want.deadline)
                  THEN reminders_table' = Append(reminders_table,
                           [user_id |-> u, recurrence |-> want.recurrence,
                            task |-> want.task, deadline |-> want.deadline])
                  ELSE reminders_table' = reminders_table]_vars

\* ==================================== cached roadmaps (under SpecRoadmap)
\* C32: a /roadmap request that passes the gate and finds cached rows for its
\* (roadmap_type[, level]) is answered with rows of that key, fresh or stale,
\* and never with the generic 'Error fetching roadmap' reply.
C32_CachedRoadmapAnswered ==
    [][(RoadmapGranted
        /\ SelectRoadmaps(roadmaps, reply'.key, reply'.level) # <<>>) =>
          /\ reply'.kind = "live"
          /\ reply'.recs # <<>>
          /\ \A i \in 1..Len(reply'.recs) :
                /\ reply'.recs[i].roadmap_type = reply'.key
                /\ reply'.level \in {"", reply'.recs[i].level}]_vars

\* C33: after a refresh for a roadmap_type at time t, a request for that type
\* at a time in (t, t + 24 h] has its entry judged fresh by the staleness
\* check, which reads the stamp of the newest write, also when older rows of
\* the type exist: no crawl is started and the cached rows are the reply.
C33_FreshWithinADayOfRefresh ==
    [][(/\ RoadmapGranted
        /\ SelectRoadmaps(roadmaps, reply'.key, reply'.level) # <<>>
        /\ now > LatestWrite(roadmaps, reply'.key, "").last_updated
        /\ now - LatestWrite(roadmaps, reply'.key, "").last_updated <= TTL) =>
          /\ reply'.stale = "False"
          /\ ~reply'.crawl
          /\ reply'.kind = "live"]_vars

\* ============================== a crawl without response (under SpecFallback)
\* a request of one of the six commands whose crawl ends without a response
\* reaching the spider's parse callback
NoResponseRequest(u) ==
    \/ calendar(u, Got(<<>>))
    \/ notice(u, Got(<<>>))
    \/ \E args \in {<<>>, <<"python">>} :
          \/ resources(u, args, Got(<<>>))
          \/ trending(u, args, Got(<<>>))
          \/ stackoverflow(u, args, Got(<<>>))
          \/ jobs(u, args, Got(<<>>))

\* C34: a request of calendar, resources, trending, stackoverflow, jobs or
\* notice whose crawl delivers no response to parse extracted nothing, so its
\* reply is the fallback set ('Using mock data') and never the batch an
\* earlier request left in the temp_* buffer presented as live data.
C34_NoResponseUsesFallback ==
    [][\A u \in Users :
          (NoResponseRequest(u) /\ reply'.crawl) => reply'.kind = "mock"]_vars

\* ================================== several start URLs (SpecCrawl)
\* /resources and /jobs by two users.  Each crawl gets one response from
\* every start URL of its spider, in any order; a site answers with its page
\* or with a page without items.
Crawls(urls, page) ==
    LET n == Len(urls)
        Orders == {p \in [1..n -> 1..n] : \A i, j \in 1..n : p[i] = p[j] => i = j}
    IN  UNION {{[i \in 1..n |-> Response(urls[p[i]],
                                         IF p[i] \in full THEN page ELSE <<>>)] :
                   full \in SUBSET (1..n)} : p \in Orders}

DoResourcesCrawl ==
    \E u \in Users : \E rs \in Crawls(ResourcesUrls, ResourcesPage(u)) :
        resources(u, <<>>, Got(rs))
DoJobsCrawl ==
    \E u \in Users : \E rs \in Crawls(JobsUrls, JobsPage(u)) :
        jobs(u, <<>>, Got(rs))

NextCrawl ==
    \/ DoResourcesCrawl
    \/ DoJobsCrawl

SpecCrawl == Init /\ [][NextCrawl]_vars

\* the records the parse callback extracts from the responses rs, each
\* response taken alone
Extracted(spider, buffer, rs) ==
    UNION {{Parse(spider, EmptyTemp, rs[i])[buffer][j] :
               j \in 1..Len(Parse(spider, EmptyTemp, rs[i])[buffer])} :
           i \in 1..Len(rs)}

\* the records a buffer holds
Held(buffer) == {buffer[k] : k \in 1..Len(buffer)}

\* C35: after a crawl of ResourcesSpider (3 start URLs) or JobsSpider (4),
\* with the responses in any order, the spider's buffer holds the records
\* extracted from every response of the crawl (here never more than the
\* cap), not only those of the response processed last.
C35_BufferHoldsEveryResponse ==
    [][\A u \in Users :
          /\ \A rs \in Crawls(ResourcesUrls, ResourcesPage(u)) :
                (resources(u, <<>>, Got(rs)) /\ reply'.crawl) =>
                    Extracted("resources", "resources", rs) \subseteq Held(temp'.resources)
          /\ \A rs \in Crawls(JobsUrls, JobsPage(u)) :
                (jobs(u, <<>>, Got(rs)) /\ reply'.crawl) =>
                    Extracted("jobs", "jobs", rs) \subseteq Held(temp'.jobs)]_vars

\* ============================ malformed requests and the gate (under SpecGate)
\* this step is a /roadmap without a type or a /mentor without
\* 'find <query>' by u, answered with the usage text
Malformed(u) ==
    /\ now' = now
    /\ reply'.user = u
    /\ reply'.cmd \in {"roadmap", "mentor"}
    /\ reply'.kind = "usage"

\* C36: a /roadmap or /mentor request rejected for its arguments leaves
\* user_last_scrape as it was: it consumes no cooldown window, so a valid
\* request of the same user right after it is granted exactly when it would
\* have been granted in its place.
C36_MalformedKeepsStamps ==
    [][\A u \in Users :
          Malformed(u) =>
              /\ UNCHANGED <<user_last_scrape, last_ok, last_crawl>>
              /\ can_scrape(user_last_scrape', now', u).ok
                     = can_scrape(user_last_scrape, now, u).ok
              /\ ~FreshStamp(u) => can_scrape(user_last_scrape', now', u).ok]_vars

\* a malformed request of a user who has no stamp yet, after a granted
\* request of the other user
C36_Witness ==
    /\ reply.cmd \in {"roadmap", "mentor"}
    /\ reply.kind = "usage"
    /\ reply.user \notin DOMAIN user_last_scrape
    /\ DOMAIN user_last_scrape # {}

\* ======================================== contact buttons (SpecContact)
\* /mentor find python, /profile, /recommend and the buttons sent, by two
\* users within one second.  The first faculty page lists two members, one
\* of them with an underscore in the name; a crawl raises, gets no response,
\* an empty page or that page.
DoMentorContact ==
    \E u \in Users :
        \E out \in Outcomes(FacultyUrls[1],
               <<[name |-> "Dr. A B", designation |-> "Professor",
                  email |-> "ab@uiu.ac.bd", phone |-> "111",
                  expertise |-> "Python", src |-> Src("faculty", "", u)],
                 [name |-> "Md_Ali", designation |-> "Lecturer",
                  email |-> "ali@uiu.ac.bd", phone |-> "222",
                  expertise |-> "Python", src |-> Src("faculty", "", u)]>>) :
            mentor(u, <<"find", "python">>, out)

NextContact ==
    \/ DoMentorContact
    \/ DoProfile
    \/ DoRecommendData
    \/ DoButton

SpecContact == Init /\ [][NextContact]_vars

\* the name button_callback reads from the callback_data of a Contact button
Decoded(data) == Replace(Replace(data, "contact_", ""), "_", " ")

\* C37: a Contact button of a /mentor reply, pressed at any later time,
\* is answered with the email and phone of the mentor the reply listed under
\* that button, whatever /mentor and /recommend requests of other users came
\* in between and whatever the mentor's name is.
C37_ContactResolvesToListedMentor ==
    reply.cmd = "button" =>
        \A l \in listed :
            Decoded(l.data) = reply.key =>
                /\ reply.kind \in {"live", "mock"}
                /\ reply.recs[1].email = l.email
                /\ reply.recs[1].phone = l.phone
====
